---- MODULE Spec2Model ----
(***************************************************************************)
(* Text layout and cursor addressing of fabric.js Textbox / OlpTextbox:    *)
(* line splitting, word wrapping, style map, bounding boxes, justifier,    *)
(* path positioning, index <-> 2D mapping and hit testing.                 *)
(*                                                                         *)
(* Conventions.  The source indexes arrays from 0; sequences here start at *)
(* 1, so At(s, i) reads element i of a 0-based array.  A string is a       *)
(* sequence of one-unit strings (UTF-16 code units); a grapheme is a       *)
(* string.  Horizontal lengths are integers in units of 1/Px pixel, so     *)
(* that the division made by the justifier is exact; vertical lengths are  *)
(* integers in units of 1/10000 pixel (lineHeight and _fontSizeMult are    *)
(* kept as hundredths).                                                    *)
(***************************************************************************)
EXTENDS Integers, Sequences, FiniteSets, TLC

-----------------------------------------------------------------------------
(* Bounds of the model *)

MaxLen == 4

-----------------------------------------------------------------------------
(* Generic helpers *)

At(s, i) == s[i + 1]

Max2(a, b) == IF a >= b THEN a ELSE b

Min2(a, b) == IF a <= b THEN a ELSE b

Abs(a) == IF a < 0 THEN -a ELSE a

RECURSIVE Gcd(_, _)
Gcd(a, b) == IF b = 0 THEN a ELSE Gcd(b, a % b)

RECURSIVE LcmUpTo(_)
LcmUpTo(n) == IF n <= 1 THEN 1 ELSE LET l == LcmUpTo(n - 1) IN (l * n) \div Gcd(l, n)

\* model units per pixel: every quotient (width - lineWidth) / numberOfSpaces
\* of a line of at most MaxLen graphemes is an integer
Px == LcmUpTo(MaxLen)

RECURSIVE SumSeq(_)
SumSeq(s) == IF s = <<>> THEN 0 ELSE Head(s) + SumSeq(Tail(s))

RECURSIVE Flatten(_)
Flatten(ss) == IF ss = <<>> THEN <<>> ELSE Head(ss) \o Flatten(Tail(ss))

\* String.prototype.split on a one-unit separator class
RECURSIVE SplitAt(_, _)
SplitAt(str, Sep) ==
  IF \A i \in 1..Len(str) : str[i] \notin Sep
  THEN <<str>>
  ELSE LET k == CHOOSE i \in 1..Len(str) :
                  str[i] \in Sep /\ \A j \in 1..(i - 1) : str[j] \notin Sep
       IN <<SubSeq(str, 1, k - 1)>> \o SplitAt(SubSeq(str, k + 1, Len(str)), Sep)

-----------------------------------------------------------------------------
(* Code units and the grapheme segmenter (util/lang_string) *)

NL == "\n"
CR == "\r"
TAB == "\t"
SPACE == " "

HighSurrogates == {"H"}
LowSurrogates == {"L"}

getWholeChar_lowUnchecked(str, i) ==
  IF i >= Len(str) THEN [t |-> "chr", v |-> ""]
  ELSE LET code == At(str, i) IN
    IF code \notin HighSurrogates \cup LowSurrogates
    THEN [t |-> "chr", v |-> code]
    ELSE IF code \in HighSurrogates
    THEN IF Len(str) <= i + 1 THEN [t |-> "throw", v |-> ""]
         ELSE IF At(str, i + 1) \notin LowSurrogates THEN [t |-> "throw", v |-> ""]
         ELSE [t |-> "chr", v |-> code \o At(str, i + 1)]
    ELSE [t |-> "false", v |-> ""]

\* getWholeChar: a grapheme, false (a low surrogate already consumed) or a throw
getWholeChar(str, i) ==
  IF i >= Len(str) THEN [t |-> "chr", v |-> ""]
  ELSE LET code == At(str, i) IN
    IF code \notin HighSurrogates \cup LowSurrogates
    THEN [t |-> "chr", v |-> code]
    ELSE IF code \in HighSurrogates
    THEN IF Len(str) <= i + 1 THEN [t |-> "throw", v |-> ""]
         ELSE IF At(str, i + 1) \notin LowSurrogates THEN [t |-> "throw", v |-> ""]
         ELSE [t |-> "chr", v |-> code \o At(str, i + 1)]
    ELSE IF i = 0 THEN [t |-> "throw", v |-> ""]
         ELSE IF At(str, i - 1) \notin HighSurrogates THEN [t |-> "throw", v |-> ""]
         ELSE [t |-> "false", v |-> ""]

RECURSIVE graphemeSplitFrom_keepLow(_, _, _)
graphemeSplitFrom_keepLow(str, i, graphemes) ==
  IF i >= Len(str) THEN [threw |-> FALSE, graphemes |-> graphemes]
  ELSE LET chr == getWholeChar(str, i) IN
    IF chr.t = "throw" THEN [threw |-> TRUE, graphemes |-> <<>>]
    ELSE IF chr.t = "false"
    THEN graphemeSplitFrom_keepLow(str, i + 1, Append(graphemes, At(str, i)))
    ELSE graphemeSplitFrom_keepLow(str, i + 1, Append(graphemes, chr.v))

RECURSIVE graphemeSplitFrom(_, _, _)
graphemeSplitFrom(str, i, graphemes) ==
  IF i >= Len(str) THEN [threw |-> FALSE, graphemes |-> graphemes]
  ELSE LET chr == getWholeChar(str, i) IN
    IF chr.t = "throw" THEN [threw |-> TRUE, graphemes |-> <<>>]
    ELSE IF chr.t = "false" THEN graphemeSplitFrom(str, i + 1, graphemes)
    ELSE graphemeSplitFrom(str, i + 1, Append(graphemes, chr.v))

graphemeSplit(textstring) == graphemeSplitFrom(textstring, 0, <<>>)

\* the code units of one grapheme
unitsOf(g) ==
  IF \E h \in HighSurrogates, l \in LowSurrogates : g = h \o l
  THEN LET hl == CHOOSE hl \in HighSurrogates \X LowSurrogates : g = hl[1] \o hl[2]
       IN <<hl[1], hl[2]>>
  ELSE <<g>>

\* Array.prototype.join('') of a grapheme array, as a string
RECURSIVE joinGraphemes(_)
joinGraphemes(gs) == IF gs = <<>> THEN <<>> ELSE unitsOf(Head(gs)) \o joinGraphemes(Tail(gs))

-----------------------------------------------------------------------------
(* Measurement (FabricText._measureChar, _getGraphemeBox, _measureWord) *)

CACHE_FONT_SIZE == 400

\* the fonts' advance widths, in pixels at a font size of 40
Advance(g) == IF g = "a" THEN 2 ELSE IF g = "b" THEN 3 ELSE IF g = SPACE THEN 1 ELSE 2

\* the fonts' pair kerning, in pixels at a font size of 40
Kern(p, g) == IF p = "a" /\ g = "b" THEN -1 ELSE IF p = "b" /\ g = "a" THEN 1 ELSE 0

\* ctx.measureText(str).width at CACHE_FONT_SIZE, str one grapheme or a couple
measureText(str) ==
  IF Len(str) = 1 THEN Advance(str[1]) * 10 * Px
  ELSE (Advance(str[1]) + Advance(str[2]) + Kern(str[1], str[2])) * 10 * Px

EmptyDecl == [p \in {} |-> 0]

\* Textbox._getStyleDeclaration over StyledText._getStyleDeclaration
_getStyleDeclaration(o, isWrapping, lineIndex, charIndex) ==
  LET useMap == o.hasStyleMap /\ ~isWrapping
      hasEntry == lineIndex >= 0 /\ lineIndex < Len(o._styleMap)
      l == IF useMap /\ hasEntry THEN At(o._styleMap, lineIndex).line ELSE lineIndex
      c == IF useMap /\ hasEntry THEN At(o._styleMap, lineIndex).offset + charIndex
           ELSE charIndex
  IN IF useMap /\ ~hasEntry THEN EmptyDecl
     ELSE IF l \in DOMAIN o.styles /\ c \in DOMAIN o.styles[l]
          THEN o.styles[l][c] ELSE EmptyDecl

\* StyledText.getCompleteStyleDeclaration, restricted to the measured property
getCompleteStyleDeclaration(o, isWrapping, lineIndex, charIndex) ==
  LET complete(decl) ==
        [fontSize |-> IF "fontSize" \in DOMAIN decl THEN decl["fontSize"] ELSE o.fontSize,
         deltaY |-> 0]
  IN complete(_getStyleDeclaration(o, isWrapping, lineIndex, charIndex))

_getWidthOfCharSpacing(o) ==
  IF o.charSpacing # 0 THEN (o.fontSize * Px * o.charSpacing) \div 1000 ELSE 0

\* previousChar = "" stands for undefined
_measureChar(_char, charStyle, previousChar, prevCharStyle) ==
  LET stylesAreEqual == previousChar # "" /\ charStyle.fontSize = prevCharStyle.fontSize
      scaled(width, kernedWidth) ==
        [width |-> (width * charStyle.fontSize) \div CACHE_FONT_SIZE,
         kernedWidth |-> (kernedWidth * charStyle.fontSize) \div CACHE_FONT_SIZE]
      measured(width) ==
        scaled(width,
               IF stylesAreEqual
               THEN measureText(<<previousChar, _char>>) - measureText(<<previousChar>>)
               ELSE width)
  IN measured(measureText(<<_char>>))

\* cache.getFontCache(charStyle) before any measurement
EmptyFontCache == [k \in {} |-> 0]

\* a measurement that looks for the couple only when the single width is new
_measureCharCached_coupleWithWidth(fontCache, _char, charStyle, previousChar, prevCharStyle) ==
  LET stylesAreEqual == previousChar # "" /\ charStyle.fontSize = prevCharStyle.fontSize
      couple == previousChar \o _char
      hasPrevious == previousChar # "" /\ previousChar \in DOMAIN fontCache
      hasWidth == _char \in DOMAIN fontCache
      hasCouple == stylesAreEqual /\ couple \in DOMAIN fontCache
      measuresPrevious == ~hasPrevious /\ stylesAreEqual
      measuresCouple == stylesAreEqual /\ ~hasCouple /\ ~hasWidth
      width == IF hasWidth THEN fontCache[_char] ELSE measureText(<<_char>>)
      previousWidth == IF hasPrevious THEN fontCache[previousChar]
                       ELSE measureText(<<previousChar>>)
      coupleWidth == IF hasCouple THEN fontCache[couple]
                     ELSE measureText(<<previousChar, _char>>)
      \* coupleWidth - previousWidth with previousWidth undefined is NaN
      isNaN == hasCouple /\ ~hasPrevious /\ hasWidth
      kernedWidth == IF measuresCouple THEN coupleWidth - previousWidth
                     ELSE IF ~hasWidth THEN width
                     ELSE IF hasCouple /\ hasPrevious THEN coupleWidth - previousWidth
                     ELSE width
      written == (IF measuresCouple THEN couple :> coupleWidth ELSE EmptyFontCache)
                   @@ (IF measuresPrevious THEN previousChar :> previousWidth
                       ELSE EmptyFontCache)
                   @@ (IF ~hasWidth THEN _char :> width ELSE EmptyFontCache)
  IN [fontCache |-> written @@ fontCache,
      width |-> (width * charStyle.fontSize) \div CACHE_FONT_SIZE,
      kernedWidth |-> (kernedWidth * charStyle.fontSize) \div CACHE_FONT_SIZE,
      isNaN |-> isNaN]

\* FabricText._measureChar with the font cache it reads and writes: the cache
\* after the call and the measured widths; previousChar = "" stands for
\* undefined
_measureCharCached(fontCache, _char, charStyle, previousChar, prevCharStyle) ==
  LET stylesAreEqual == previousChar # "" /\ charStyle.fontSize = prevCharStyle.fontSize
      couple == previousChar \o _char
      hasPrevious == previousChar # "" /\ previousChar \in DOMAIN fontCache
      hasWidth == _char \in DOMAIN fontCache
      hasCouple == stylesAreEqual /\ couple \in DOMAIN fontCache
      measuresPrevious == ~hasPrevious /\ stylesAreEqual
      measuresCouple == stylesAreEqual /\ ~hasCouple
      width == IF hasWidth THEN fontCache[_char] ELSE measureText(<<_char>>)
      previousWidth == IF hasPrevious THEN fontCache[previousChar]
                       ELSE measureText(<<previousChar>>)
      coupleWidth == IF hasCouple THEN fontCache[couple]
                     ELSE measureText(<<previousChar, _char>>)
      \* coupleWidth - previousWidth with previousWidth undefined is NaN
      isNaN == hasCouple /\ ~hasPrevious /\ hasWidth
      kernedWidth == IF measuresCouple THEN coupleWidth - previousWidth
                     ELSE IF ~hasWidth THEN width
                     ELSE IF hasCouple /\ hasPrevious THEN coupleWidth - previousWidth
                     ELSE width
      written == (IF measuresCouple THEN couple :> coupleWidth ELSE EmptyFontCache)
                   @@ (IF measuresPrevious THEN previousChar :> previousWidth
                       ELSE EmptyFontCache)
                   @@ (IF ~hasWidth THEN _char :> width ELSE EmptyFontCache)
  IN [fontCache |-> written @@ fontCache,
      width |-> (width * charStyle.fontSize) \div CACHE_FONT_SIZE,
      kernedWidth |-> (kernedWidth * charStyle.fontSize) \div CACHE_FONT_SIZE,
      isNaN |-> isNaN]

\* lineBounds: the boxes of the line built so far (this.__charBounds[lineIndex])
_getGraphemeBox(o, isWrapping, lineBounds, grapheme, lineIndex, charIndex, prevGrapheme, skipLeft) ==
  LET charSpacing == IF o.charSpacing # 0 THEN _getWidthOfCharSpacing(o) ELSE 0
      box(style, info) ==
        [width |-> info.width + charSpacing,
         left |-> IF charIndex > 0 /\ ~skipLeft
                  THEN At(lineBounds, charIndex - 1).left + At(lineBounds, charIndex - 1).width
                       + info.kernedWidth - info.width
                  ELSE 0,
         height |-> style.fontSize,
         kernedWidth |-> info.kernedWidth + charSpacing,
         deltaY |-> style.deltaY]
      prevStyle == IF prevGrapheme # ""
                   THEN getCompleteStyleDeclaration(o, isWrapping, lineIndex, charIndex - 1)
                   ELSE [fontSize |-> o.fontSize, deltaY |-> 0]
      styled(style) == box(style, _measureChar(grapheme, style, prevGrapheme, prevStyle))
  IN styled(getCompleteStyleDeclaration(o, isWrapping, lineIndex, charIndex))

RECURSIVE measureWordFrom(_, _, _, _, _, _)
measureWordFrom(o, word, lineIndex, charOffset, i, prevGrapheme) ==
  IF i >= Len(word) THEN 0
  ELSE _getGraphemeBox(o, TRUE, <<>>, At(word, i), lineIndex, i + charOffset,
                       prevGrapheme, TRUE).kernedWidth
       + measureWordFrom(o, word, lineIndex, charOffset, i + 1, At(word, i))

_measureWord(o, word, lineIndex, charOffset) ==
  measureWordFrom(o, word, lineIndex, charOffset, 0, "")

-----------------------------------------------------------------------------
(* Line splitter (FabricText._splitTextIntoLines) *)

\* text.split(/\r?\n/): split at "\n"; a "\r" right before it belongs to the break
reNewlineSplit(text) ==
  LET trimmed(raw) ==
        [i \in 1..Len(raw) |->
           IF i < Len(raw) /\ raw[i] # <<>> /\ raw[i][Len(raw[i])] = CR
           THEN SubSeq(raw[i], 1, Len(raw[i]) - 1) ELSE raw[i]]
  IN trimmed(SplitAt(text, {NL}))

RECURSIVE joinWithNewline(_)
joinWithNewline(newLines) ==
  IF newLines = <<>> THEN <<>>
  ELSE Head(newLines) \o <<NL>> \o joinWithNewline(Tail(newLines))

Text_splitTextIntoLines_keepLastBreak(text) ==
  LET info(lines, newLines, newText) ==
        [_unwrappedLines |-> newLines,
         lines |-> lines,
         graphemeText |-> newText,
         graphemeLines |-> newLines]
      joined(lines, newLines) == info(lines, newLines, joinWithNewline(newLines))
      split(lines) == joined(lines, [i \in 1..Len(lines) |-> graphemeSplit(lines[i]).graphemes])
  IN split(reNewlineSplit(text))

Text_splitTextIntoLines(text) ==
  LET info(lines, newLines, newText) ==
        [_unwrappedLines |-> newLines,
         lines |-> lines,
         graphemeText |-> SubSeq(newText, 1, Len(newText) - 1),
         graphemeLines |-> newLines]
      joined(lines, newLines) == info(lines, newLines, joinWithNewline(newLines))
      split(lines) == joined(lines, [i \in 1..Len(lines) |-> graphemeSplit(lines[i]).graphemes])
  IN split(reNewlineSplit(text))

-----------------------------------------------------------------------------
(* Word wrapper (Textbox.getGraphemeDataForRender, _wrapLine, _wrapText) *)

_wordJoiners == {SPACE, TAB, CR}

_reSpaceAndTab == {SPACE, TAB, CR}

wordSplit(value) == SplitAt(value, _wordJoiners)

\* the word loop of getGraphemeDataForRender; start records the offset the
\* word was measured at (history only)
RECURSIVE measureWordsFrom(_, _, _, _, _)
measureWordsFrom(o, words, lineIndex, k, offset) ==
  IF k > Len(words) THEN <<>>
  ELSE LET infixLength == IF o.splitByGrapheme THEN 0 ELSE 1
           measured(graphemeArray) ==
             <<[word |-> graphemeArray,
                width |-> _measureWord(o, graphemeArray, lineIndex, offset),
                start |-> offset]>>
             \o measureWordsFrom(o, words, lineIndex, k + 1,
                                 offset + Len(graphemeArray) + infixLength)
       IN measured(IF o.splitByGrapheme THEN <<words[k]>>
                   ELSE graphemeSplit(words[k]).graphemes)

getGraphemeDataForRender(o, lines) ==
  LET measuredLine(i, wordsOrGraphemes) ==
        IF Len(wordsOrGraphemes) = 0
        THEN <<[word |-> <<>>, width |-> 0, start |-> 0]>>
        ELSE measureWordsFrom(o, wordsOrGraphemes, i - 1, 1, 0)
      largest(allWidths) == CHOOSE w \in allWidths : \A v \in allWidths : v <= w
      result(data) ==
        [wordsData |-> data,
         largestWordWidth |->
           largest({0} \cup UNION {{data[i][k].width : k \in 1..Len(data[i])} :
                                     i \in 1..Len(data)})]
  IN result([i \in 1..Len(lines) |->
               measuredLine(i, IF o.splitByGrapheme THEN graphemeSplit(lines[i]).graphemes
                               ELSE wordSplit(lines[i]))])

RECURSIVE wrapLoop_flushOversized(_, _, _, _, _, _, _)
wrapLoop_flushOversized(o, lineIndex, data, maxWidth, wrapEnabled, i, st) ==
  IF i >= Len(data) THEN st
  ELSE LET additionalSpace == _getWidthOfCharSpacing(o)
           word == At(data, i).word
           wordWidth == At(data, i).width
           packed(offset, lineWidth, flush) ==
             wrapLoop_flushOversized(o, lineIndex, data, maxWidth, wrapEnabled, i + 1,
               [graphemeLines |-> IF flush THEN Append(st.graphemeLines, st.line)
                                  ELSE st.graphemeLines,
                line |-> (IF flush THEN <<>>
                          ELSE IF ~st.lineJustStarted /\ ~o.splitByGrapheme
                          THEN Append(st.line, SPACE) ELSE st.line) \o word,
                lineWidth |-> IF flush THEN wordWidth ELSE lineWidth + additionalSpace,
                offset |-> offset + 1,
                infixWidth |-> IF o.splitByGrapheme THEN 0
                               ELSE _measureWord(o, <<SPACE>>, lineIndex, offset),
                lineJustStarted |-> FALSE,
                starts |-> IF flush THEN Append(st.starts, st.lineStart) ELSE st.starts,
                lineStart |-> IF flush \/ st.lineJustStarted THEN At(data, i).start
                              ELSE st.lineStart])
           measured(lineWidth) ==
             packed(st.offset + Len(word), lineWidth, lineWidth > maxWidth /\ wrapEnabled)
       IN measured(st.lineWidth + st.infixWidth + wordWidth - additionalSpace)

\* a packing loop that pushes the infix before every word, also the first of
\* a visual line
RECURSIVE wrapLoop_infixBeforeEveryWord(_, _, _, _, _, _, _)
wrapLoop_infixBeforeEveryWord(o, lineIndex, data, maxWidth, wrapEnabled, i, st) ==
  IF i >= Len(data) THEN st
  ELSE LET additionalSpace == _getWidthOfCharSpacing(o)
           word == At(data, i).word
           wordWidth == At(data, i).width
           packed(offset, lineWidth, flush) ==
             wrapLoop_infixBeforeEveryWord(o, lineIndex, data, maxWidth, wrapEnabled, i + 1,
               [graphemeLines |-> IF flush THEN Append(st.graphemeLines, st.line)
                                  ELSE st.graphemeLines,
                line |-> (IF (flush \/ i > 0) /\ ~o.splitByGrapheme
                          THEN Append(IF flush THEN <<>> ELSE st.line, SPACE)
                          ELSE IF flush THEN <<>> ELSE st.line) \o word,
                lineWidth |-> IF flush THEN wordWidth ELSE lineWidth + additionalSpace,
                offset |-> offset + 1,
                infixWidth |-> IF o.splitByGrapheme THEN 0
                               ELSE _measureWord(o, <<SPACE>>, lineIndex, offset),
                lineJustStarted |-> FALSE,
                starts |-> IF flush THEN Append(st.starts, st.lineStart) ELSE st.starts,
                lineStart |-> IF flush \/ st.lineJustStarted THEN At(data, i).start
                              ELSE st.lineStart])
           measured(lineWidth) ==
             packed(st.offset + Len(word), lineWidth,
                    lineWidth > maxWidth /\ ~st.lineJustStarted /\ wrapEnabled)
       IN measured(st.lineWidth + st.infixWidth + wordWidth - additionalSpace)

\* the packing loop of _wrapLine; st carries the loop's local variables,
\* wrapEnabled is TRUE for Textbox and this.wrap for OlpTextbox.
\* st.starts and st.lineStart are history only: the character offset at which
\* getGraphemeDataForRender measured the first word of each visual line
RECURSIVE wrapLoop(_, _, _, _, _, _, _)
wrapLoop(o, lineIndex, data, maxWidth, wrapEnabled, i, st) ==
  IF i >= Len(data) THEN st
  ELSE LET additionalSpace == _getWidthOfCharSpacing(o)
           word == At(data, i).word
           wordWidth == At(data, i).width
           packed(offset, lineWidth, flush) ==
             wrapLoop(o, lineIndex, data, maxWidth, wrapEnabled, i + 1,
               [graphemeLines |-> IF flush THEN Append(st.graphemeLines, st.line)
                                  ELSE st.graphemeLines,
                line |-> (IF flush THEN <<>>
                          ELSE IF ~st.lineJustStarted /\ ~o.splitByGrapheme
                          THEN Append(st.line, SPACE) ELSE st.line) \o word,
                lineWidth |-> IF flush THEN wordWidth ELSE lineWidth + additionalSpace,
                offset |-> offset + 1,
                infixWidth |-> IF o.splitByGrapheme THEN 0
                               ELSE _measureWord(o, <<SPACE>>, lineIndex, offset),
                lineJustStarted |-> FALSE,
                starts |-> IF flush THEN Append(st.starts, st.lineStart) ELSE st.starts,
                lineStart |-> IF flush \/ st.lineJustStarted THEN At(data, i).start
                              ELSE st.lineStart])
           measured(lineWidth) ==
             packed(st.offset + Len(word), lineWidth,
                    lineWidth > maxWidth /\ ~st.lineJustStarted /\ wrapEnabled)
       IN measured(st.lineWidth + st.infixWidth + wordWidth - additionalSpace)

wrapLoopInit ==
  [graphemeLines |-> <<>>, line |-> <<>>, lineWidth |-> 0, offset |-> 0,
   infixWidth |-> 0, lineJustStarted |-> TRUE, starts |-> <<>>, lineStart |-> 0]

_wrapLine_noDynamicMinWidth(o, lineIndex, desiredWidth0, gdata, reservedSpace) ==
  LET additionalSpace == _getWidthOfCharSpacing(o)
      desiredWidth == desiredWidth0 - reservedSpace
      maxWidth == Max2(desiredWidth, gdata.largestWordWidth)
      result(data, st) ==
        [o |-> IF gdata.largestWordWidth + reservedSpace > o.dynamicMinWidth
               THEN [o EXCEPT !.dynamicMinWidth =
                        gdata.largestWordWidth - additionalSpace + reservedSpace]
               ELSE o,
         graphemeLines |-> IF Len(data) # 0 THEN Append(st.graphemeLines, st.line)
                           ELSE st.graphemeLines,
         starts |-> IF Len(data) # 0 THEN Append(st.starts, st.lineStart) ELSE st.starts]
      wrapped(data) ==
        result(data, wrapLoop(o, lineIndex, data, maxWidth, TRUE, 0, wrapLoopInit))
  IN wrapped(At(gdata.wordsData, lineIndex))

\* Textbox._wrapLine: the object after the call and the returned lines
_wrapLine(o, lineIndex, desiredWidth0, gdata, reservedSpace) ==
  LET additionalSpace == _getWidthOfCharSpacing(o)
      desiredWidth == desiredWidth0 - reservedSpace
      maxWidth == Max2(Max2(desiredWidth, gdata.largestWordWidth), o.dynamicMinWidth)
      result(data, st) ==
        [o |-> IF gdata.largestWordWidth + reservedSpace > o.dynamicMinWidth
               THEN [o EXCEPT !.dynamicMinWidth =
                        gdata.largestWordWidth - additionalSpace + reservedSpace]
               ELSE o,
         graphemeLines |-> IF Len(data) # 0 THEN Append(st.graphemeLines, st.line)
                           ELSE st.graphemeLines,
         starts |-> IF Len(data) # 0 THEN Append(st.starts, st.lineStart) ELSE st.starts]
      wrapped(data) ==
        result(data, wrapLoop(o, lineIndex, data, maxWidth, TRUE, 0, wrapLoopInit))
  IN wrapped(At(gdata.wordsData, lineIndex))

\* a wrap of the OlpTextbox that flushes at the width limit whatever this.wrap
OlpTextbox_wrapLine_ignoreWrap(o, lineIndex, desiredWidth0, gdata, reservedSpace) ==
  LET additionalSpace == _getWidthOfCharSpacing(o)
      desiredWidth == desiredWidth0 - reservedSpace
      maxWidth == Max2(Max2(desiredWidth, gdata.largestWordWidth), o.dynamicMinWidth)
      result(data, st, o1) ==
        [o |-> IF gdata.largestWordWidth + reservedSpace > o1.dynamicMinWidth
               THEN [o1 EXCEPT !.dynamicMinWidth =
                        gdata.largestWordWidth - additionalSpace + reservedSpace]
               ELSE o1,
         graphemeLines |-> IF Len(data) # 0 THEN Append(st.graphemeLines, st.line)
                           ELSE st.graphemeLines,
         starts |-> IF Len(data) # 0 THEN Append(st.starts, st.lineStart) ELSE st.starts]
      packed(data, st) ==
        result(data, st, [o EXCEPT !.maxLineWidth = Max2(o.maxLineWidth, st.lineWidth)])
      wrapped(data) ==
        packed(data, wrapLoop(o, lineIndex, data, maxWidth, TRUE, 0, wrapLoopInit))
  IN wrapped(At(gdata.wordsData, lineIndex))

\* OlpTextbox._wrapLine
OlpTextbox_wrapLine(o, lineIndex, desiredWidth0, gdata, reservedSpace) ==
  LET additionalSpace == _getWidthOfCharSpacing(o)
      desiredWidth == desiredWidth0 - reservedSpace
      maxWidth == Max2(Max2(desiredWidth, gdata.largestWordWidth), o.dynamicMinWidth)
      result(data, st, o1) ==
        [o |-> IF gdata.largestWordWidth + reservedSpace > o1.dynamicMinWidth
               THEN [o1 EXCEPT !.dynamicMinWidth =
                        gdata.largestWordWidth - additionalSpace + reservedSpace]
               ELSE o1,
         graphemeLines |-> IF Len(data) # 0 THEN Append(st.graphemeLines, st.line)
                           ELSE st.graphemeLines,
         starts |-> IF Len(data) # 0 THEN Append(st.starts, st.lineStart) ELSE st.starts]
      packed(data, st) ==
        result(data, st, [o EXCEPT !.maxLineWidth = Max2(o.maxLineWidth, st.lineWidth)])
      wrapped(data) ==
        packed(data, wrapLoop(o, lineIndex, data, maxWidth, o.wrap, 0, wrapLoopInit))
  IN wrapped(At(gdata.wordsData, lineIndex))

wrapLineOf(o, lineIndex, desiredWidth, gdata) ==
  IF o.cls = "OlpTextbox" THEN OlpTextbox_wrapLine(o, lineIndex, desiredWidth, gdata, 0)
  ELSE _wrapLine(o, lineIndex, desiredWidth, gdata, 0)

RECURSIVE wrapTextFrom(_, _, _, _, _, _)
wrapTextFrom(o, desiredWidth, gdata, i, wrapped, origins) ==
  IF i >= Len(gdata.wordsData) THEN [o |-> o, wrapped |-> wrapped, origins |-> origins]
  ELSE LET next(r) ==
             wrapTextFrom(r.o, desiredWidth, gdata, i + 1, wrapped \o r.graphemeLines,
                          origins \o [k \in 1..Len(r.starts) |->
                                        [line |-> i, offset |-> r.starts[k]]])
       IN next(wrapLineOf(o, i, desiredWidth, gdata))

\* Textbox._wrapText; isWrapping is true for the measurements made here
_wrapText(o, lines, desiredWidth) ==
  LET wrapAll(o0) ==
        wrapTextFrom(o0, desiredWidth, getGraphemeDataForRender(o0, lines), 0, <<>>, <<>>)
  IN wrapAll(IF o.cls = "OlpTextbox" THEN [o EXCEPT !.maxLineWidth = 0] ELSE o)

\* Textbox._splitTextIntoLines
_splitTextIntoLines(o, text) ==
  LET result(newText, w) ==
        [o |-> [w.o EXCEPT !.origins = w.origins],
         info |-> [newText EXCEPT
                     !.lines = [i \in 1..Len(w.wrapped) |-> joinGraphemes(w.wrapped[i])],
                     !.graphemeLines = w.wrapped]]
      wrapped(newText) == result(newText, _wrapText(o, newText.lines, o.width))
  IN wrapped(Text_splitTextIntoLines(text))

\* FabricText._splitText
_splitText(o) ==
  LET assigned(r) ==
        [o |-> [r.o EXCEPT !.textLines = r.info.lines,
                           !._textLines = r.info.graphemeLines,
                           !._unwrappedTextLines = r.info._unwrappedLines,
                           !._text = r.info.graphemeText],
         info |-> r.info]
  IN assigned(_splitTextIntoLines(o, o.text))

-----------------------------------------------------------------------------
(* Style map (Textbox._generateStyleMap) *)

RECURSIVE styleMapFrom(_, _, _, _, _, _, _)
styleMapFrom(o, textInfo, i, realLineCount, realLineCharCount, charCount, map) ==
  IF i >= Len(textInfo.graphemeLines) THEN map
  ELSE LET cur == IF charCount < Len(textInfo.graphemeText)
                  THEN At(textInfo.graphemeText, charCount) ELSE ""
           len == Len(At(textInfo.graphemeLines, i))
           entry(isNewline, isSpace) ==
             LET line == IF isNewline THEN realLineCount + 1 ELSE realLineCount
                 offset == IF isNewline THEN 0
                           ELSE IF isSpace THEN realLineCharCount + 1 ELSE realLineCharCount
                 count == IF isNewline \/ isSpace THEN charCount + 1 ELSE charCount
             IN styleMapFrom(o, textInfo, i + 1, line, offset + len, count + len,
                             Append(map, [line |-> line, offset |-> offset]))
       IN entry(cur = NL /\ i > 0,
                ~(cur = NL /\ i > 0) /\ ~o.splitByGrapheme /\ cur \in _reSpaceAndTab /\ i > 0)

\* a style map that never accounts for the word joiner dropped at a wrap point
_generateStyleMap_noJoinerSkip(o, textInfo) ==
  styleMapFrom([o EXCEPT !.splitByGrapheme = TRUE], textInfo, 0, 0, 0, 0, <<>>)

_generateStyleMap(o, textInfo) == styleMapFrom(o, textInfo, 0, 0, 0, 0, <<>>)

-----------------------------------------------------------------------------
(* Bounding boxes and line metrics (FabricText._measureLine, measureLine,  *)
(* getLineWidth, getHeightOfLine, calcTextHeight, _clearCache)             *)

RIGHT == "right"
LEFT == "left"
CENTER == "center"
JUSTIFY == "justify"
JUSTIFY_LEFT == "justify-left"
JUSTIFY_CENTER == "justify-center"
JUSTIFY_RIGHT == "justify-right"

\* textAlign.includes(JUSTIFY)
includesJustify(textAlign) ==
  textAlign \in {JUSTIFY, JUSTIFY_LEFT, JUSTIFY_CENTER, JUSTIFY_RIGHT}

RECURSIVE lineBoundsFrom(_, _, _, _, _)
lineBoundsFrom(o, lineIndex, i, prevGrapheme, lineBounds) ==
  LET line == At(o._textLines, lineIndex) IN
  IF i >= Len(line) THEN lineBounds
  ELSE lineBoundsFrom(o, lineIndex, i + 1, At(line, i),
         Append(lineBounds,
                _getGraphemeBox(o, FALSE, lineBounds, At(line, i), lineIndex, i,
                                prevGrapheme, FALSE)))

\* the reduction of positionInPath made before each _setGraphemeOnPath call
reducePosition(positionInPath, totalPathLength) ==
  IF positionInPath > totalPathLength THEN positionInPath % totalPathLength
  ELSE IF positionInPath < 0 THEN positionInPath + totalPathLength
  ELSE positionInPath

\* the path loop of _measureLine: order lists the character indices in the
\* direction of traversal; each box receives the position handed to
\* _setGraphemeOnPath (from which renderLeft, renderTop and angle derive)
RECURSIVE setGraphemesOnPath(_, _, _, _)
setGraphemesOnPath(lineBounds, order, positionInPath, totalPathLength) ==
  IF order = <<>> THEN lineBounds
  ELSE LET pos == reducePosition(positionInPath, totalPathLength)
           k == Head(order) + 1
           box == lineBounds[k]
           placed == [width |-> box.width, left |-> box.left, height |-> box.height,
                      kernedWidth |-> box.kernedWidth, deltaY |-> box.deltaY,
                      positionInPath |-> pos]
       IN setGraphemesOnPath([lineBounds EXCEPT ![k] = placed], Tail(order),
                             pos + box.kernedWidth, totalPathLength)

\* the starting offset of a line on the path
pathStart(o, width) ==
  LET reverse == o.pathSide = RIGHT
      totalPathLength == o.totalPathLength
      aligned == IF o.textAlign = LEFT THEN (IF reverse THEN totalPathLength - width ELSE 0)
                 ELSE IF o.textAlign = CENTER THEN (totalPathLength - width) \div 2
                 ELSE IF o.textAlign = RIGHT THEN (IF reverse THEN 0 ELSE totalPathLength - width)
                 ELSE 0
  IN aligned + o.pathStartOffset * (IF reverse THEN -1 ELSE 1)

\* FabricText._measureLine: the object with __charBounds[lineIndex] set and
\* the line width
_measureLine(o, lineIndex) ==
  LET line == At(o._textLines, lineIndex)
      llength == Len(line)
      reverse == o.pathSide = RIGHT
      order == IF reverse THEN [k \in 1..llength |-> llength - k]
               ELSE [k \in 1..llength |-> k - 1]
      result(width, placed) ==
        [o |-> [o EXCEPT !.__charBounds = (lineIndex :> placed) @@ @],
         width |-> width]
      positioned(width, lineBounds) ==
        result(width,
               IF o.hasPath
               THEN setGraphemesOnPath(lineBounds, order, pathStart(o, width),
                                       o.totalPathLength)
               ELSE lineBounds)
      measured(boxes) ==
        positioned(SumSeq([k \in 1..llength |-> boxes[k].kernedWidth]),
                   Append(boxes,
                          [left |-> IF llength > 0
                                    THEN boxes[llength].left + boxes[llength].width ELSE 0,
                           width |-> 0, kernedWidth |-> 0, height |-> o.fontSize,
                           deltaY |-> 0]))
  IN measured(lineBoundsFrom(o, lineIndex, 0, "", <<>>))

\* a line width that keeps the spacing after the last character
measureLine_keepSpacing(o, lineIndex) ==
  LET kept(lineInfo) == [o |-> lineInfo.o, width |-> lineInfo.width]
  IN kept(_measureLine(o, lineIndex))

\* FabricText.measureLine
measureLine(o, lineIndex) ==
  LET clipped(o1, width) == [o |-> o1, width |-> IF width < 0 THEN 0 ELSE width]
      spaced(lineInfo) ==
        clipped(lineInfo.o,
                IF o.charSpacing # 0 THEN lineInfo.width - _getWidthOfCharSpacing(o)
                ELSE lineInfo.width)
  IN spaced(_measureLine(o, lineIndex))

\* FabricText.getLineWidth
getLineWidth(o, lineIndex) ==
  IF lineIndex \in DOMAIN o.__lineWidths
  THEN [o |-> o, width |-> o.__lineWidths[lineIndex]]
  ELSE LET cached(m) ==
             [o |-> [m.o EXCEPT !.__lineWidths = (lineIndex :> m.width) @@ @],
              width |-> m.width]
       IN cached(measureLine(o, lineIndex))

lineHeight == 116

_fontSizeMult == 113

\* FabricText.getHeightOfChar
getHeightOfChar(o, line, _char) ==
  getCompleteStyleDeclaration(o, FALSE, line, _char).fontSize

\* FabricText.getHeightOfLine
getHeightOfLine(o, lineIndex) ==
  IF lineIndex \in DOMAIN o.__lineHeights /\ o.__lineHeights[lineIndex] # 0
  THEN [o |-> o, height |-> o.__lineHeights[lineIndex]]
  ELSE LET len == Len(At(o._textLines, lineIndex))
           cached(h) == [o |-> [o EXCEPT !.__lineHeights = (lineIndex :> h) @@ @],
                         height |-> h]
           maxHeight(heights) == CHOOSE h \in heights : \A g \in heights : g <= h
       IN cached(maxHeight({getHeightOfChar(o, lineIndex, i) : i \in {0} \cup 1..(len - 1)})
                 * lineHeight * _fontSizeMult)

RECURSIVE calcTextHeightFrom(_, _, _)
calcTextHeightFrom(o, i, height) ==
  LET len == Len(o._textLines) IN
  IF i >= len THEN [o |-> o, height |-> height]
  ELSE LET next(r) ==
             calcTextHeightFrom(r.o, i + 1,
               height + (IF i = len - 1 THEN (r.height * 100) \div lineHeight ELSE r.height))
       IN next(getHeightOfLine(o, i))

\* FabricText.calcTextHeight
calcTextHeight(o) == calcTextHeightFrom(o, 0, 0)

\* FabricText._clearCache
_clearCache(o) ==
  [o EXCEPT !.__lineWidths = <<>>, !.__lineHeights = <<>>, !.__charBounds = <<>>]

-----------------------------------------------------------------------------
(* Wrap points and the justifier (Textbox.isEndOfWrapping,                 *)
(* missingNewlineOffset, FabricText.enlargeSpaces)                         *)

_reSpacesAndTabs == {SPACE, TAB, CR}

isEndOfWrapping(o, lineIndex) ==
  IF lineIndex + 1 >= Len(o._styleMap) THEN TRUE
  ELSE IF At(o._styleMap, lineIndex + 1).line # At(o._styleMap, lineIndex).line THEN TRUE
  ELSE FALSE

\* an index walk that counts a separator after every line, wrap point or not
missingNewlineOffset_always(o, lineIndex, skipWrapping) == 1

missingNewlineOffset(o, lineIndex, skipWrapping) ==
  IF o.splitByGrapheme /\ ~skipWrapping
  THEN (IF isEndOfWrapping(o, lineIndex) THEN 1 ELSE 0)
  ELSE 1

\* the inner loop of enlargeSpaces over the boxes of one line, sentinel included
RECURSIVE enlargeLine(_, _, _, _, _)
enlargeLine(line, bounds, diffSpace, j, accumulatedSpace) ==
  IF j > Len(line) THEN bounds
  ELSE LET isSpace == j < Len(line) /\ At(line, j) \in _reSpaceAndTab
           b == bounds[j + 1]
           nb == IF isSpace
                 THEN [b EXCEPT !.width = @ + diffSpace, !.kernedWidth = @ + diffSpace,
                                !.left = @ + accumulatedSpace]
                 ELSE [b EXCEPT !.left = @ + accumulatedSpace]
       IN enlargeLine(line, [bounds EXCEPT ![j + 1] = nb], diffSpace, j + 1,
                      IF isSpace THEN accumulatedSpace + diffSpace ELSE accumulatedSpace)

\* a justifier that never skips the last line of a paragraph
RECURSIVE enlargeSpacesFrom_everyLine(_, _)
enlargeSpacesFrom_everyLine(o, i) ==
  LET len == Len(o._textLines) IN
  IF i >= len THEN o
  ELSE LET line == At(o._textLines, i)
           str == At(o.textLines, i)
           stretched(lw, numberOfSpaces) ==
             IF lw.width < lw.o.width /\ numberOfSpaces > 0
             THEN enlargeSpacesFrom_everyLine(
                    [lw.o EXCEPT !.__charBounds[i] =
                       enlargeLine(line, @, (lw.o.width - lw.width) \div numberOfSpaces, 0, 0)],
                    i + 1)
             ELSE enlargeSpacesFrom_everyLine(lw.o, i + 1)
       IN stretched(getLineWidth(o, i),
                    Cardinality({k \in 1..Len(str) : str[k] \in _reSpacesAndTabs}))

RECURSIVE enlargeSpacesFrom(_, _)
enlargeSpacesFrom(o, i) ==
  LET len == Len(o._textLines) IN
  IF i >= len THEN o
  ELSE IF o.textAlign # JUSTIFY /\ (i = len - 1 \/ isEndOfWrapping(o, i))
  THEN enlargeSpacesFrom(o, i + 1)
  ELSE LET line == At(o._textLines, i)
           str == At(o.textLines, i)
           stretched(lw, numberOfSpaces) ==
             IF lw.width < lw.o.width /\ numberOfSpaces > 0
             THEN enlargeSpacesFrom(
                    [lw.o EXCEPT !.__charBounds[i] =
                       enlargeLine(line, @, (lw.o.width - lw.width) \div numberOfSpaces, 0, 0)],
                    i + 1)
             ELSE enlargeSpacesFrom(lw.o, i + 1)
       IN stretched(getLineWidth(o, i),
                    Cardinality({k \in 1..Len(str) : str[k] \in _reSpacesAndTabs}))

enlargeSpaces(o) == enlargeSpacesFrom(o, 0)

-----------------------------------------------------------------------------
(* Relayout (Textbox.initDimensions, OlpTextbox.initDimensions, calcLeftTop) *)

\* OlpTextbox.setLeftPosition
setLeftPosition(o, halfWidth, textboxHalfWidth) ==
  IF o.textAlign = CENTER THEN -textboxHalfWidth
  ELSE IF o.textAlign = RIGHT THEN halfWidth - o.width - o.textBodyRIns
  ELSE -halfWidth + o.textBodyLIns

\* OlpTextbox.calcLeftTop
calcLeftTop(o) ==
  LET actualWidth == IF o.hasGroup THEN o.group.width ELSE 0
      actualHeight == IF o.hasGroup THEN o.group.height ELSE 0
      a == o.textAnchor
      placed(halfWidth, halfHeight, textboxHalfWidth, textboxHalfHeight) ==
        [o EXCEPT
           !.left = IF a \in {"top", "middle", "bottom"}
                    THEN setLeftPosition(o, halfWidth, textboxHalfWidth)
                    ELSE IF a \in {"topCenter", "middleCenter", "bottomCenter"}
                    THEN -textboxHalfWidth ELSE 0,
           !.top = IF a \in {"top", "topCenter"} THEN -halfHeight + o.textBodyTIns
                   ELSE IF a \in {"middle", "middleCenter"} THEN -textboxHalfHeight
                   ELSE IF a \in {"bottom", "bottomCenter"}
                   THEN halfHeight - o.height - o.textBodyBIns ELSE 0]
  IN placed(actualWidth \div 2, actualHeight \div 2, o.width \div 2, o.height \div 2)

\* Textbox.initDimensions
Textbox_initDimensions(o) ==
  LET styleMapped(sp) ==
        [sp.o EXCEPT !._styleMap = _generateStyleMap(sp.o, sp.info), !.hasStyleMap = TRUE]
      widened(o2) ==
        IF o2.dynamicMinWidth > o2.width THEN [o2 EXCEPT !.width = o2.dynamicMinWidth] ELSE o2
      justified(o3) == IF includesJustify(o3.textAlign) THEN enlargeSpaces(o3) ELSE o3
      withHeight(h) == [h.o EXCEPT !.height = h.height]
  IN IF ~o.initialized THEN o
     ELSE withHeight(calcTextHeight(justified(widened(styleMapped(
            _splitText([_clearCache(o) EXCEPT !.dynamicMinWidth = 0]))))))

\* OlpTextbox.initDimensions
OlpTextbox_initDimensions(o) ==
  LET scaleX == IF o.hasGroup /\ o.group.scaleX # 0 THEN o.group.scaleX ELSE 1
      groupSpan == (IF o.hasGroup /\ o.group.width # 0 THEN o.group.width ELSE 0) * scaleX
                     - o.textBodyLIns - o.textBodyRIns
      styleMapped(sp) ==
        [sp.o EXCEPT !._styleMap = _generateStyleMap(sp.o, sp.info), !.hasStyleMap = TRUE]
      resized(o2) ==
        IF o2.wrap
        THEN (IF o2.hasGroup
              THEN [o2 EXCEPT !.width = o2.group.width * scaleX
                                          - o2.textBodyLIns - o2.textBodyRIns]
              ELSE o2)
        ELSE IF o2.width # 0
        THEN (IF o2.width > o2.maxLineWidth
              THEN [o2 EXCEPT !.width = Max2(o2.dynamicMinWidth, o2.maxLineWidth)]
              ELSE o2)
        ELSE [o2 EXCEPT !.width = Max2(o2.dynamicMinWidth, o2.maxLineWidth)]
      justified(o3) == IF includesJustify(o3.textAlign) THEN enlargeSpaces(o3) ELSE o3
      withHeight(h) == [h.o EXCEPT !.height = h.height]
  IN IF ~o.initialized THEN o
     ELSE calcLeftTop(withHeight(calcTextHeight(justified(resized(styleMapped(
            _splitText([_clearCache(o) EXCEPT !.dynamicMinWidth = 0,
                                              !.textboxMaxWidth = groupSpan])))))))

initDimensions(o) ==
  IF o.cls = "OlpTextbox" THEN OlpTextbox_initDimensions(o) ELSE Textbox_initDimensions(o)

\* Textbox.textLayoutProperties
textLayoutProperties ==
  {"fontSize", "fontWeight", "fontFamily", "fontStyle", "lineHeight", "text",
   "charSpacing", "textAlign", "styles", "path", "pathStartOffset", "pathSide",
   "pathAlign", "width"}

\* FabricText.set for one key (setCoords only refreshes the control geometry)
set(o, key, value) ==
  LET assigned(o1) ==
        IF key \in textLayoutProperties /\ o1.initialized THEN initDimensions(o1) ELSE o1
  IN assigned([o EXCEPT ![key] = value])

-----------------------------------------------------------------------------
(* Cursor addressor (FabricText.get2DCursorLocation, _getLineLeftOffset,   *)
(* ITextClickBehavior.getSelectionStartFromPointer)                        *)

RECURSIVE locateFrom(_, _, _, _, _)
locateFrom(o, lines, skipWrapping, i, selectionStart) ==
  IF i >= Len(lines)
  THEN [lineIndex |-> i - 1,
        charIndex |-> IF Len(At(lines, i - 1)) < selectionStart
                      THEN Len(At(lines, i - 1)) ELSE selectionStart]
  ELSE IF selectionStart <= Len(At(lines, i))
  THEN [lineIndex |-> i, charIndex |-> selectionStart]
  ELSE locateFrom(o, lines, skipWrapping, i + 1,
                  selectionStart - (Len(At(lines, i)) + missingNewlineOffset(o, i, skipWrapping)))

get2DCursorLocation(o, selectionStart, skipWrapping) ==
  locateFrom(o, IF skipWrapping THEN o._unwrappedTextLines ELSE o._textLines,
             skipWrapping, 0, selectionStart)

_getLineLeftOffset(o, lineIndex) ==
  LET textAlign == o.textAlign
      offset(lineDiff) ==
        IF textAlign = JUSTIFY
           \/ (textAlign \in {JUSTIFY_CENTER, JUSTIFY_RIGHT, JUSTIFY_LEFT}
               /\ ~isEndOfWrapping(o, lineIndex))
        THEN 0
        ELSE IF o.direction = "rtl"
        THEN (IF textAlign \in {RIGHT, JUSTIFY, JUSTIFY_RIGHT} THEN 0
              ELSE IF textAlign \in {LEFT, JUSTIFY_LEFT} THEN -lineDiff
              ELSE IF textAlign \in {CENTER, JUSTIFY_CENTER} THEN (-lineDiff) \div 2
              ELSE 0)
        ELSE (IF textAlign = CENTER \/ textAlign = JUSTIFY_CENTER THEN lineDiff \div 2
              ELSE IF textAlign = RIGHT \/ textAlign = JUSTIFY_RIGHT THEN lineDiff
              ELSE 0)
      measured(lw) == [o |-> lw.o, leftOffset |-> offset(lw.o.width - lw.width)]
  IN measured(getLineWidth(o, lineIndex))

\* a line loop that counts no separator between two visual lines
RECURSIVE hitLineFrom_noSeparator(_, _, _, _)
hitLineFrom_noSeparator(o, y, i, st) ==
  IF i >= Len(o._textLines) THEN [o |-> o, st |-> st]
  ELSE IF st.height <= y
  THEN LET next(h) ==
             hitLineFrom_noSeparator(h.o, y, i + 1,
               [height |-> st.height + h.height,
                lineIndex |-> i,
                charIndex |-> IF i > 0
                              THEN st.charIndex + Len(At(o._textLines, i - 1))
                              ELSE st.charIndex])
       IN next(getHeightOfLine(o, i))
  ELSE [o |-> o, st |-> st]

\* the line loop of getSelectionStartFromPointer
RECURSIVE hitLineFrom(_, _, _, _)
hitLineFrom(o, y, i, st) ==
  IF i >= Len(o._textLines) THEN [o |-> o, st |-> st]
  ELSE IF st.height <= y
  THEN LET next(h) ==
             hitLineFrom(h.o, y, i + 1,
               [height |-> st.height + h.height,
                lineIndex |-> i,
                charIndex |-> IF i > 0
                              THEN st.charIndex + Len(At(o._textLines, i - 1))
                                   + missingNewlineOffset(o, i - 1, FALSE)
                              ELSE st.charIndex])
       IN next(getHeightOfLine(o, i))
  ELSE [o |-> o, st |-> st]

\* the character scan of getSelectionStartFromPointer
RECURSIVE hitCharFrom(_, _, _, _, _, _)
hitCharFrom(chars, charLength, x, j, width, charIndex) ==
  IF j >= charLength THEN charIndex
  ELSE LET charWidth == At(chars, j).kernedWidth
           widthAfter == width + charWidth
       IN IF x <= widthAfter
          THEN (IF Abs(x - widthAfter) <= Abs(x - width) THEN charIndex + 1 ELSE charIndex)
          ELSE hitCharFrom(chars, charLength, x, j + 1, widthAfter, charIndex + 1)

\* mouseOffset: the pointer in the text's own plane, relative to its top left
getSelectionStartFromPointer(o, mouseOffset) ==
  LET clamped(o1, charLength, charIndex) ==
        [o |-> o1,
         index |-> Min2(IF o.flipX THEN charLength - charIndex ELSE charIndex, Len(o._text))]
      scanned(ln, off, charLength) ==
        clamped(off.o, charLength,
                hitCharFrom(off.o.__charBounds[ln.st.lineIndex], charLength, mouseOffset.x,
                            0, Abs(off.leftOffset), ln.st.charIndex))
      found(ln) ==
        scanned(ln, _getLineLeftOffset(ln.o, ln.st.lineIndex),
                Len(At(o._textLines, ln.st.lineIndex)))
  IN found(hitLineFrom(o, mouseOffset.y, 0, [height |-> 0, lineIndex |-> 0, charIndex |-> 0]))

\* a style write that forgets the offset of the visual line
_setStyleDeclaration_noOffset(o, lineIndex, charIndex, style) ==
  LET l == At(o._styleMap, lineIndex).line
      lineStyle == IF l \in DOMAIN o.styles THEN o.styles[l] ELSE <<>>
  IN [o EXCEPT !.styles = (l :> ((charIndex :> style) @@ lineStyle)) @@ @]

\* StyledText._setStyleDeclaration behind Textbox._setStyleDeclaration
_setStyleDeclaration(o, lineIndex, charIndex, style) ==
  LET map == At(o._styleMap, lineIndex)
      l == map.line
      c == map.offset + charIndex
      lineStyle == IF l \in DOMAIN o.styles THEN o.styles[l] ELSE <<>>
  IN [o EXCEPT !.styles = (l :> ((c :> style) @@ lineStyle)) @@ @]

\* StyledText._deleteStyleDeclaration behind Textbox._deleteStyleDeclaration
_deleteStyleDeclaration(o, lineIndex, charIndex) ==
  LET map == At(o._styleMap, lineIndex)
      l == map.line
      c == map.offset + charIndex
  IN IF l \in DOMAIN o.styles
     THEN [o EXCEPT !.styles[l] = [k \in (DOMAIN @) \ {c} |-> @[k]]]
     ELSE o

-----------------------------------------------------------------------------
(* State: one text box, the value returned by the last query, and the      *)
(* style overlay the writes made so far should have produced               *)

VARIABLES tb, ret, expected

vars == <<tb, ret, expected>>

textboxDefaultValues ==
  [cls |-> "Textbox", initialized |-> FALSE,
   text |-> <<>>, styles |-> <<>>,
   width |-> 0, height |-> 0, left |-> 0, top |-> 0,
   minWidth |-> 20 * Px, dynamicMinWidth |-> 2 * Px, splitByGrapheme |-> FALSE,
   wrap |-> TRUE, textAnchor |-> "middleCenter",
   textBodyLIns |-> 10 * Px, textBodyTIns |-> 10 * Px,
   textBodyRIns |-> 10 * Px, textBodyBIns |-> 10 * Px,
   textboxMaxWidth |-> 0, maxLineWidth |-> 0,
   hasGroup |-> FALSE, group |-> [width |-> 0, height |-> 0, scaleX |-> 1],
   fontSize |-> 40, charSpacing |-> 0, textAlign |-> LEFT, direction |-> "ltr",
   flipX |-> FALSE,
   hasPath |-> FALSE, totalPathLength |-> 0, pathStartOffset |-> 0, pathSide |-> LEFT,
   textLines |-> <<>>, _textLines |-> <<>>, _unwrappedTextLines |-> <<>>, _text |-> <<>>,
   hasStyleMap |-> FALSE, _styleMap |-> <<>>,
   __lineWidths |-> <<>>, __lineHeights |-> <<>>, __charBounds |-> <<>>,
   origins |-> <<>>]

\* constructor: the options are assigned before initialized is set, then the
\* text, then the first initDimensions
construct(options, text) ==
  initDimensions([k \in DOMAIN textboxDefaultValues |->
                    IF k = "text" THEN text
                    ELSE IF k = "initialized" THEN TRUE
                    ELSE IF k \in DOMAIN options THEN options[k]
                    ELSE textboxDefaultValues[k]])

Alphabet == {"a", "b", SPACE, NL}

RECURSIVE StringsUpTo(_)
StringsUpTo(n) ==
  IF n = 0 THEN {<<>>}
  ELSE LET shorter == StringsUpTo(n - 1)
       IN shorter \cup {Append(s, c) : s \in {t \in shorter : Len(t) = n - 1}, c \in Alphabet}

Texts == StringsUpTo(MaxLen)

NoRet == [op |-> "none"]

lookupStyle(styles, l, c) ==
  IF l \in DOMAIN styles /\ c \in DOMAIN styles[l] THEN styles[l][c] ELSE EmptyDecl

\* the visual positions that hold a grapheme
VisualChars(o) ==
  {<<i, j>> \in (0..(Len(o._textLines) - 1)) \X (0..MaxLen) : j < Len(At(o._textLines, i))}

-----------------------------------------------------------------------------
(* Specification Spec: a Textbox whose characters are styled through their *)
(* visual addresses while its width changes                                *)

MaxStyled == 2

Widths == {3 * Px, 6 * Px, 12 * Px}

StyleDecls == {[fontSize |-> 80]}

\* the logical address of the grapheme at visual (i, j), from the offsets the
\* wrapper measured its words at
originOf(o, i, j) == <<At(o.origins, i).line, At(o.origins, i).offset + j>>

styledCount(styles) ==
  Cardinality({lc \in (0..MaxLen) \X (0..MaxLen) : lookupStyle(styles, lc[1], lc[2]) # EmptyDecl})

Init ==
  /\ \E t \in Texts, w \in Widths, g \in BOOLEAN :
       tb = construct([width |-> w, splitByGrapheme |-> g], t)
  /\ ret = NoRet
  /\ expected = <<>>

\* setSelectionStyles on one character: Textbox._setStyleDeclaration
SetStyleAt(i, j, style) ==
  /\ <<i, j>> \in VisualChars(tb)
  /\ \/ styledCount(tb.styles) < MaxStyled
     \/ _getStyleDeclaration(tb, FALSE, i, j) # EmptyDecl
  /\ tb' = _setStyleDeclaration(tb, i, j, style)
  /\ LET lc == originOf(tb, i, j)
         lineStyle == IF lc[1] \in DOMAIN expected THEN expected[lc[1]] ELSE <<>>
     IN expected' = (lc[1] :> ((lc[2] :> style) @@ lineStyle)) @@ expected
  /\ ret' = NoRet

\* Textbox._deleteStyleDeclaration on one character
DeleteStyleAt(i, j) ==
  /\ <<i, j>> \in VisualChars(tb)
  /\ tb' = _deleteStyleDeclaration(tb, i, j)
  /\ LET lc == originOf(tb, i, j)
     IN expected' = IF lc[1] \in DOMAIN expected
                    THEN [expected EXCEPT ![lc[1]] = [k \in (DOMAIN @) \ {lc[2]} |-> @[k]]]
                    ELSE expected
  /\ ret' = NoRet

\* set('width', w)
SetWidth(w) ==
  /\ w # tb.width
  /\ tb' = set(tb, "width", w)
  /\ ret' = NoRet
  /\ UNCHANGED expected

Next ==
  \/ \E i \in 0..MaxLen, j \in 0..(MaxLen - 1), style \in StyleDecls : SetStyleAt(i, j, style)
  \/ \E i \in 0..MaxLen, j \in 0..(MaxLen - 1) : DeleteStyleAt(i, j)
  \/ \E w \in Widths : SetWidth(w)

Spec == Init /\ [][Next]_vars

\* C1: every style read, write and delete made through a visual address acts
\* on the logical character that the visual position holds: the overlay equals
\* the one obtained by applying each write to the character's logical address,
\* whatever width changes came in between, and the style read at the current
\* visual address of a character is the one written to it
StyleFollowsCharacter ==
  /\ \A lc \in (0..MaxLen) \X (0..MaxLen) :
       lookupStyle(tb.styles, lc[1], lc[2]) = lookupStyle(expected, lc[1], lc[2])
  /\ \A ij \in VisualChars(tb) :
       _getStyleDeclaration(tb, FALSE, ij[1], ij[2])
         = lookupStyle(expected, originOf(tb, ij[1], ij[2])[1], originOf(tb, ij[1], ij[2])[2])

\* a styled character sits on a wrapped line (not the first of its logical line)
StyleFollowsCharacterWitness ==
  \E ij \in VisualChars(tb) :
    /\ At(tb._styleMap, ij[1]).offset > 0
    /\ _getStyleDeclaration(tb, FALSE, ij[1], ij[2]) # EmptyDecl
    /\ styledCount(tb.styles) = 2


\* C2 (as stated): after every relayout the style map entries are
\* non-decreasing in logical line, the first visual line of every logical line
\* has offset 0, the span of a visual line ends exactly where the span of the
\* next visual line of the same logical line begins, and the last span ends at
\* the end of the logical line - in grapheme and in word granular wrapping
StyleMapPartitionExact ==
  LET m == tb._styleMap
      n == Len(tb._textLines)
      len(i) == Len(At(tb._textLines, i))
  IN /\ Len(m) = n
     /\ At(m, 0) = [line |-> 0, offset |-> 0]
     /\ At(m, n - 1).line = Len(tb._unwrappedTextLines) - 1
     /\ \A i \in 0..(n - 2) :
          \/ /\ At(m, i + 1).line = At(m, i).line
             /\ At(m, i + 1).offset = At(m, i).offset + len(i)
          \/ /\ At(m, i + 1).line = At(m, i).line + 1
             /\ At(m, i + 1).offset = 0
             /\ At(m, i).offset + len(i) = Len(At(tb._unwrappedTextLines, At(m, i).line))
     /\ At(m, n - 1).offset + len(n - 1) = Len(At(tb._unwrappedTextLines, At(m, n - 1).line))

\* C2 (amended): the same partition, except that in word granular wrapping the
\* spans of two consecutive visual lines of one logical line are separated by
\* exactly one character, the word joiner dropped at the wrap point
StyleMapPartition ==
  LET m == tb._styleMap
      n == Len(tb._textLines)
      len(i) == Len(At(tb._textLines, i))
      gap == IF tb.splitByGrapheme THEN 0 ELSE 1
  IN /\ Len(m) = n
     /\ At(m, 0) = [line |-> 0, offset |-> 0]
     /\ At(m, n - 1).line = Len(tb._unwrappedTextLines) - 1
     /\ \A i \in 0..(n - 2) :
          \/ /\ At(m, i + 1).line = At(m, i).line
             /\ At(m, i + 1).offset = At(m, i).offset + len(i) + gap
             /\ gap = 1 =>
                  At(At(tb._unwrappedTextLines, At(m, i).line), At(m, i).offset + len(i))
                    \in _wordJoiners
          \/ /\ At(m, i + 1).line = At(m, i).line + 1
             /\ At(m, i + 1).offset = 0
             /\ At(m, i).offset + len(i) = Len(At(tb._unwrappedTextLines, At(m, i).line))
     /\ At(m, n - 1).offset + len(n - 1) = Len(At(tb._unwrappedTextLines, At(m, n - 1).line))

\* a logical line wrapped onto three visual lines, in word granular mode
StyleMapPartitionWitness ==
  /\ ~tb.splitByGrapheme
  /\ Len(tb._styleMap) >= 3
  /\ At(tb._styleMap, 2).line = At(tb._styleMap, 0).line

-----------------------------------------------------------------------------
(* Specification SpecCursor: one query of the cursor addressor on a laid   *)
(* out Textbox                                                             *)

CursorWidths == {3 * Px, 12 * Px}

\* pointer offsets: half pixels across a line, and around the line tops
PointerXs == {(k * Px) \div 2 : k \in {-2, 0, 3, 4, 9, 30}}

PointerYs == {-1, 0, 524319, 524320, 2 * 524320, 6 * 524320}

InitCursor ==
  /\ \E t \in Texts, w \in CursorWidths, g \in BOOLEAN, f \in BOOLEAN :
       tb = construct([width |-> w, splitByGrapheme |-> g, flipX |-> f], t)
  /\ ret = NoRet
  /\ expected = <<>>

\* getSelectionStartFromPointer for a pointer at (x, y) in the text's plane
HitTest(x, y) ==
  /\ ret = NoRet
  /\ LET r == getSelectionStartFromPointer(tb, [x |-> x, y |-> y])
     IN /\ tb' = r.o
        /\ ret' = [op |-> "hit", x |-> x, y |-> y, index |-> r.index]
  /\ UNCHANGED expected

\* get2DCursorLocation(k)
Locate(k) ==
  /\ ret = NoRet
  /\ ret' = [op |-> "locate", k |-> k, at |-> get2DCursorLocation(tb, k, FALSE)]
  /\ UNCHANGED <<tb, expected>>

NextCursor ==
  \/ \E x \in PointerXs, y \in PointerYs : HitTest(x, y)
  \/ \E k \in -1..(MaxLen + 1) : Locate(k)

SpecCursor == InitCursor /\ [][NextCursor]_vars

\* the top of visual line i (all line heights are cached by calcTextHeight)
lineTop(o, i) == SumSeq([k \in 1..i |-> o.__lineHeights[k - 1]])

\* the visual line whose vertical extent holds y, the first line above the
\* text and the last line below it
lineAtY(o, y) ==
  LET n == Len(o._textLines)
  IN CHOOSE i \in 0..(n - 1) :
       /\ i = 0 \/ lineTop(o, i) <= y
       /\ i = n - 1 \/ y < lineTop(o, i + 1)

\* C3: the index returned by hit testing lies in [0, totalGraphemeCount]
HitIndexInRange ==
  ret.op = "hit" => 0 <= ret.index /\ ret.index <= Len(tb._text)

\* C4: locate(hitTest(point)) is the visual line whose vertical extent holds
\* the point, or the first / last line for a point above / below the text
HitLocatesPointedLine ==
  ret.op = "hit" =>
    get2DCursorLocation(tb, ret.index, FALSE).lineIndex = lineAtY(tb, ret.y)

\* C5: locate returns a valid position for every integer index
LocateReturnsValidPosition ==
  ret.op = "locate" =>
    /\ 0 <= ret.at.lineIndex /\ ret.at.lineIndex < Len(tb._textLines)
    /\ 0 <= ret.at.charIndex
    /\ ret.at.charIndex <= Len(At(tb._textLines, ret.at.lineIndex))

\* visual line i ends at a genuine wrap point: the next visual line continues
\* the same logical line
endsAtWrapPoint(o, i) ==
  i + 1 < Len(o.origins) /\ At(o.origins, i + 1).line = At(o.origins, i).line

\* the separator offset the index walk is specified to add after line i
separatorOffset(o, i) == IF o.splitByGrapheme /\ endsAtWrapPoint(o, i) THEN 0 ELSE 1

\* C6: for every index k in [0, totalGraphemeCount], with (l, c) = locate(k),
\* the lengths and separator offsets of the lines before l plus c give k back
LocateInverse ==
  (ret.op = "locate" /\ 0 <= ret.k /\ ret.k <= Len(tb._text)) =>
    SumSeq([i \in 1..ret.at.lineIndex |->
              Len(tb._textLines[i]) + separatorOffset(tb, i - 1)])
      + ret.at.charIndex = ret.k

\* an index located past a grapheme granular wrap point and past a hard break
LocateInverseWitness ==
  /\ ret.op = "locate" /\ 0 <= ret.k /\ ret.k <= Len(tb._text)
  /\ tb.splitByGrapheme
  /\ ret.at.lineIndex >= 2
  /\ endsAtWrapPoint(tb, 0)
  /\ ~endsAtWrapPoint(tb, 1)

-----------------------------------------------------------------------------
(* Specification SpecLayout: a Textbox or an OlpTextbox (wrapping or not,  *)
(* inside a group or not) whose layout properties are set                  *)

LayoutWidths == {3 * Px, 12 * Px}

CharSpacings == {-25, 0}

\* a group whose text body, less the insets, spans six pixels
GroupOptions == [hasGroup |-> TRUE,
                 group |-> [width |-> 26 * Px, height |-> 30 * Px, scaleX |-> 1]]

Variants ==
  {[cls |-> "Textbox"]}
    \cup {[cls |-> "OlpTextbox", wrap |-> w] : w \in BOOLEAN}
    \cup {[cls |-> "OlpTextbox", wrap |-> w] @@ GroupOptions : w \in BOOLEAN}

InitLayout ==
  /\ \E t \in Texts, w \in LayoutWidths, v \in Variants, g \in BOOLEAN :
       tb = construct(v @@ [width |-> w, splitByGrapheme |-> g], t)
  /\ ret = NoRet
  /\ expected = <<>>

\* set(key, value) on the text box
SetProperty(key, value) ==
  /\ tb[key] # value
  /\ tb' = set(tb, key, value)
  /\ ret' = [op |-> "set", key |-> key]
  /\ UNCHANGED expected

\* typing a character at the end of the text
TypeChar(c) ==
  /\ Len(tb.text) < MaxLen
  /\ SetProperty("text", Append(tb.text, c))

\* deleting the last character of the text
Backspace ==
  /\ Len(tb.text) > 0
  /\ SetProperty("text", SubSeq(tb.text, 1, Len(tb.text) - 1))

NextLayout ==
  \/ \E c \in Alphabet : TypeChar(c)
  \/ Backspace
  \/ \E w \in LayoutWidths : SetProperty("width", w)
  \/ \E cs \in CharSpacings : SetProperty("charSpacing", cs)

SpecLayout == InitLayout /\ [][NextLayout]_vars

\* C7: after every relayout the container width is at least dynamicMinWidth,
\* for the base Textbox and for the OlpTextbox override
WidthAtLeastDynamicMinWidth == tb.width >= tb.dynamicMinWidth

\* C10: after a layout property is set, every cached line width, line height
\* and character box equals a measurement of the current visual lines from
\* scratch, and the visual lines and the style map are those of a full run of
\* the pipeline on the current state
LayoutIsFresh ==
  ret.op = "set" =>
    LET fresh == initDimensions(tb)
        cleared == _clearCache(tb)
    IN /\ tb._textLines = fresh._textLines
       /\ tb._styleMap = fresh._styleMap
       /\ \A i \in DOMAIN tb.__lineHeights :
            tb.__lineHeights[i] = getHeightOfLine(cleared, i).height
       /\ \A i \in DOMAIN tb.__lineWidths :
            tb.__lineWidths[i] = getLineWidth(cleared, i).width
       /\ \A i \in DOMAIN tb.__charBounds :
            tb.__charBounds[i] = _measureLine(cleared, i).o.__charBounds[i]

-----------------------------------------------------------------------------
(* Specification SpecJustify: a justified Textbox whose width, alignment   *)
(* and character spacing are set                                           *)

JustifyWidths == {6 * Px, 12 * Px}

JustifySpacings == {-25, 0, 25}

Justifications == {JUSTIFY, JUSTIFY_LEFT}

InitJustify ==
  /\ \E t \in Texts, w \in JustifyWidths, a \in Justifications, g \in BOOLEAN :
       tb = construct([width |-> w, textAlign |-> a, splitByGrapheme |-> g], t)
  /\ ret = NoRet
  /\ expected = <<>>

\* set(key, value) followed by the relayout it triggers
Relayout(key, value) ==
  /\ tb[key] # value
  /\ tb' = set(tb, key, value)
  /\ UNCHANGED <<ret, expected>>

NextJustify ==
  \/ \E w \in JustifyWidths : Relayout("width", w)
  \/ \E a \in Justifications : Relayout("textAlign", a)
  \/ \E cs \in JustifySpacings : Relayout("charSpacing", cs)

SpecJustify == InitJustify /\ [][NextJustify]_vars

\* the boxes of visual line i measured from scratch, before justification
naturalBoxes(o, i) == _measureLine(_clearCache(o), i).o.__charBounds[i]

\* the sum of the first n elements of the sequence of numbers s
sumTo(s, n) == SumSeq(SubSeq(s, 1, n))

\* the width of visual line i before justification: the kerned advances of
\* its characters, less the spacing after the last one
naturalWidth(o, i) ==
  Max2(0, sumTo([k \in 1..Len(At(o._textLines, i)) |-> naturalBoxes(o, i)[k].kernedWidth],
             Len(At(o._textLines, i)))
          - _getWidthOfCharSpacing(o))

\* the whitespace positions (from 1) of visual line i
spacesOf(o, i) ==
  {k \in 1..Len(At(o._textLines, i)) : At(o._textLines, i)[k] \in {SPACE, TAB, CR}}

\* visual line i is stretched: it is justified (every line under "justify",
\* otherwise every line but the last of its paragraph), narrower than the
\* container, and holds whitespace
stretched(o, i) ==
  /\ includesJustify(o.textAlign)
  /\ o.textAlign = JUSTIFY \/ endsAtWrapPoint(o, i)
  /\ naturalWidth(o, i) < o.width
  /\ spacesOf(o, i) # {}

stretchedLines(o) == {i \in 0..(Len(o._textLines) - 1) : stretched(o, i)}

\* every whitespace box of stretched line i grew by (width - natural) / spaces,
\* no other box grew, and every box moved right by the growth before it
spacesEnlarged(o, i) ==
  LET len == Len(At(o._textLines, i))
      b == o.__charBounds[i]
      n == naturalBoxes(o, i)
      extra == o.width - naturalWidth(o, i)
      count == Cardinality(spacesOf(o, i))
  IN /\ \A k \in 1..len :
          IF k \in spacesOf(o, i)
          THEN /\ (b[k].width - n[k].width) * count = extra
               /\ (b[k].kernedWidth - n[k].kernedWidth) * count = extra
          ELSE b[k].width = n[k].width /\ b[k].kernedWidth = n[k].kernedWidth
     /\ \A k \in 1..(len + 1) :
          (b[k].left - n[k].left) * count
            = extra * Cardinality({j \in spacesOf(o, i) : j < k})

-----------------------------------------------------------------------------
(* Specification SpecPath: a text laid along a path, measured line by line *)

\* the arc length of the path
PathLength == 4 * Px

\* starting offsets, below -PathLength and above 2 * PathLength included
PathStartOffsets == {-9 * Px, -2 * Px, 9 * Px}

PathAligns == {LEFT, CENTER, RIGHT}

PathSides == {LEFT, RIGHT}

InitPath ==
  /\ \E t \in Texts, s \in PathStartOffsets, a \in PathAligns, d \in PathSides :
       tb = construct([width |-> 12 * Px, hasPath |-> TRUE, totalPathLength |-> PathLength,
                       pathStartOffset |-> s, textAlign |-> a, pathSide |-> d], t)
  /\ ret = NoRet
  /\ expected = <<>>

\* getLineWidth(i), which measures the line and places its boxes on the path
MeasureLine(i) ==
  /\ i < Len(tb._textLines)
  /\ i \notin DOMAIN tb.__charBounds
  /\ tb' = getLineWidth(tb, i).o
  /\ UNCHANGED <<ret, expected>>

NextPath ==
  \/ \E i \in 0..MaxLen : MeasureLine(i)
  \/ \E s \in PathStartOffsets : Relayout("pathStartOffset", s)
  \/ \E d \in PathSides : Relayout("pathSide", d)

SpecPath == InitPath /\ [][NextPath]_vars

\* C9: the offset handed to the path lookup for every character lies in
\* [0, totalPathLength], for every line width, alignment, side and starting
\* offset
PathPositionReduced ==
  \A i \in DOMAIN tb.__charBounds :
    \A k \in 1..Len(At(tb._textLines, i)) :
      /\ 0 <= tb.__charBounds[i][k].positionInPath
      /\ tb.__charBounds[i][k].positionInPath <= tb.totalPathLength

-----------------------------------------------------------------------------
(* Specification SpecWrap: the word wrapper called directly on a Textbox,  *)
(* several times over, at chosen desired widths                            *)

WrapWidths == {0, 3 * Px, 5 * Px}

WrapSpacings == {-25, 0, 25}

DynamicMinWidths == {0, 2 * Px, 5 * Px}

InitWrap ==
  /\ \E t \in Texts, g \in BOOLEAN, cs \in WrapSpacings :
       tb = construct([width |-> 12 * Px, splitByGrapheme |-> g, charSpacing |-> cs], t)
  /\ ret = NoRet
  /\ expected = <<>>

\* this._wrapText(lines, desiredWidth) on the logical lines of the text; the
\* call leaves its side effect on dynamicMinWidth, and ret keeps the lines it
\* returned together with those of the call made right before it
WrapText(w) ==
  /\ LET returned(r) ==
           /\ tb' = r.o
           /\ ret' = [op |-> "wrap", desiredWidth |-> w,
                      wrapped |-> r.wrapped, origins |-> r.origins,
                      dynamicMinWidth |-> tb.dynamicMinWidth,
                      prev |-> IF ret.op = "wrap"
                               THEN [op |-> "wrap", desiredWidth |-> ret.desiredWidth,
                                     wrapped |-> ret.wrapped]
                               ELSE NoRet]
     IN returned(_wrapText(tb, Text_splitTextIntoLines(tb.text).lines, w))
  /\ UNCHANGED expected

\* set('dynamicMinWidth', d): a plain assignment, the key is no layout property
SetDynamicMinWidth(d) ==
  /\ tb.dynamicMinWidth # d
  /\ tb' = set(tb, "dynamicMinWidth", d)
  /\ ret' = NoRet
  /\ UNCHANGED expected

NextWrap ==
  \/ \E w \in WrapWidths : WrapText(w)
  \/ \E d \in DynamicMinWidths : SetDynamicMinWidth(d)

SpecWrap == InitWrap /\ [][NextWrap]_vars

\* C11: two wraps of the same logical lines at the same desired width, made
\* one right after the other, return the same visual lines, whatever
\* dynamicMinWidth was before the first and whatever the character spacing
WrapIdempotent ==
  (ret.op = "wrap" /\ ret.prev.op = "wrap" /\ ret.prev.desiredWidth = ret.desiredWidth)
    => ret.wrapped = ret.prev.wrapped

\* the visual lines a wrap returned for logical line l
visualLinesOf(r, l) == {v \in 1..Len(r.wrapped) : r.origins[v].line = l}

\* a logical line made of one word: no word joiner in it, or, when wrapping
\* by grapheme, one grapheme
isSingleWord(o, line) ==
  /\ Len(line) >= 1
  /\ IF o.splitByGrapheme THEN Len(line) = 1
     ELSE \A k \in 1..Len(line) : line[k] \notin _wordJoiners

\* the logical lines of one word that is wider than the desired width
oversizedWordLines(o, desiredWidth) ==
  {l \in 0..(Len(o._unwrappedTextLines) - 1) :
     /\ isSingleWord(o, At(o._unwrappedTextLines, l))
     /\ _measureWord(o, At(o._unwrappedTextLines, l), l, 0) > desiredWidth}

\* C12: the wrap returns (it terminates), and a logical line that is a single
\* word wider than the desired width comes back as exactly one visual line
\* holding exactly that word, with no empty line before or after it
SingleWordOneLine ==
  ret.op = "wrap" =>
    \A l \in oversizedWordLines(tb, ret.desiredWidth) :
      /\ Cardinality(visualLinesOf(ret, l)) = 1
      /\ \A v \in visualLinesOf(ret, l) : ret.wrapped[v] = At(tb._unwrappedTextLines, l)

SingleWordOneLineWitness ==
  /\ ret.op = "wrap"
  /\ ret.desiredWidth = 3 * Px
  /\ tb.charSpacing = -25
  /\ ret.dynamicMinWidth = 0
  /\ \E l \in oversizedWordLines(tb, ret.desiredWidth) :
       Len(At(tb._unwrappedTextLines, l)) >= 2
  /\ Len(tb._unwrappedTextLines) >= 2

\* C19: in word-granular mode no visual line returned for a logical line that
\* holds at least one grapheme is empty, also when the logical line has
\* leading, trailing or consecutive word joiners
NoEmptyVisualLine ==
  (ret.op = "wrap" /\ ~tb.splitByGrapheme) =>
    \A v \in 1..Len(ret.wrapped) :
      Len(At(tb._unwrappedTextLines, ret.origins[v].line)) >= 1 => Len(ret.wrapped[v]) >= 1

\* word k of logical line l is the first word of a visual line
wordStartsLine(r, data, l, k) ==
  \E v \in visualLinesOf(r, l) : r.origins[v].offset = data[k].start

\* the width of the visual line that holds word k, up to and including word k
RECURSIVE accumulatedWidth(_, _, _, _, _)
accumulatedWidth(r, data, l, k, separator) ==
  IF wordStartsLine(r, data, l, k) THEN data[k].width
  ELSE accumulatedWidth(r, data, l, k - 1, separator) + separator + data[k].width

\* the greedy rule: a break stands before word k exactly when the visual line
\* of word k - 1, one separator and word k, less slack, exceed the maximum of
\* the desired width, the largest word and dynamicMinWidth
packingRule(r, o, gdata, slack) ==
  \A l \in 0..(Len(gdata.wordsData) - 1) :
    LET data == At(gdata.wordsData, l)
        separator == IF o.splitByGrapheme THEN 0 ELSE _measureWord(o, <<SPACE>>, l, 0)
        maxWidth == Max2(Max2(r.desiredWidth, gdata.largestWordWidth),
                         IF l = 0 THEN r.dynamicMinWidth ELSE o.dynamicMinWidth)
    IN \A k \in 2..Len(data) :
         wordStartsLine(r, data, l, k)
           <=> (accumulatedWidth(r, data, l, k - 1, separator) + separator
                  + data[k].width - slack > maxWidth)

-----------------------------------------------------------------------------
(* Specification SpecSplit: the grapheme segmenter and the line splitter   *)
(* applied to strings of code units, surrogates and line breaks included   *)

SplitAlphabet == {"a", NL, CR, "H", "L"}

RECURSIVE StringsOver(_, _)
StringsOver(alphabet, n) ==
  IF n = 0 THEN {<<>>}
  ELSE LET shorter == StringsOver(alphabet, n - 1)
       IN shorter \cup {Append(s, c) : s \in {t \in shorter : Len(t) = n - 1}, c \in alphabet}

InitSplit ==
  /\ \E t \in StringsOver(SplitAlphabet, MaxLen) : tb = [text |-> t]
  /\ ret = NoRet
  /\ expected = <<>>

\* graphemeSplit(text)
GraphemeSplit ==
  /\ ret.op # "graphemeSplit"
  /\ ret' = [op |-> "graphemeSplit", result |-> graphemeSplit(tb.text)]
  /\ UNCHANGED <<tb, expected>>

\* FabricText._splitTextIntoLines(text); a throw of graphemeSplit on one of
\* the lines leaves the call without a result
SplitTextIntoLines ==
  /\ ret.op \notin {"splitLines", "throw"}
  /\ LET returned(lines) ==
           ret' = IF \E i \in 1..Len(lines) : graphemeSplit(lines[i]).threw
                  THEN [op |-> "throw"]
                  ELSE [op |-> "splitLines", info |-> Text_splitTextIntoLines(tb.text)]
     IN returned(reNewlineSplit(tb.text))
  /\ UNCHANGED <<tb, expected>>

NextSplit ==
  \/ GraphemeSplit
  \/ SplitTextIntoLines

SpecSplit == InitSplit /\ [][NextSplit]_vars

\* grapheme lines with one hard-break marker between consecutive lines
RECURSIVE interleaved(_)
interleaved(lines) ==
  IF Len(lines) = 0 THEN <<>>
  ELSE IF Len(lines) = 1 THEN lines[1]
  ELSE lines[1] \o <<NL>> \o interleaved(Tail(lines))

\* the carriage returns that belong to a hard break
breakReturns(text) == {i \in 1..(Len(text) - 1) : text[i] = CR /\ text[i + 1] = NL}

malformed(str) ==
  \E i \in 1..Len(str) :
    \/ str[i] \in HighSurrogates /\ (i = Len(str) \/ str[i + 1] \notin LowSurrogates)
    \/ str[i] \in LowSurrogates /\ (i = 1 \/ str[i - 1] \notin HighSurrogates)

\* C14: on a string with an unpaired surrogate, wherever it stands,
\* graphemeSplit throws and returns nothing
MalformedInputThrows ==
  (ret.op = "graphemeSplit" /\ malformed(tb.text)) =>
    (ret.result.threw /\ ret.result.graphemes = <<>>)

MalformedInputThrowsWitness ==
  /\ ret.op = "graphemeSplit"
  /\ ret.result.threw
  /\ tb.text = <<"H", "L", "a", "L">>

\* C15: on a well-formed string graphemeSplit returns graphemes whose
\* concatenation is the string, each a surrogate pair or one other code unit
WellFormedInputSplits ==
  (ret.op = "graphemeSplit" /\ ~malformed(tb.text)) =>
    /\ ~ret.result.threw
    /\ joinGraphemes(ret.result.graphemes) = tb.text
    /\ \A k \in 1..Len(ret.result.graphemes) :
         \/ \E h \in HighSurrogates, l \in LowSurrogates : ret.result.graphemes[k] = h \o l
         \/ ret.result.graphemes[k] \in SplitAlphabet \ (HighSurrogates \cup LowSurrogates)

WellFormedInputSplitsWitness ==
  /\ ret.op = "graphemeSplit"
  /\ ret.result.graphemes = <<"HL", "HL">>

-----------------------------------------------------------------------------
(* Specification SpecMeasure: the bounding boxes of the lines of a         *)
(* left-aligned Textbox, measured line by line under several spacings      *)

MeasureSpacings == {-75, 0, 25}

InitMeasure ==
  /\ \E t \in Texts, g \in BOOLEAN, cs \in MeasureSpacings :
       tb = construct([width |-> 12 * Px, splitByGrapheme |-> g, charSpacing |-> cs], t)
  /\ ret = NoRet
  /\ expected = <<>>

NextMeasure ==
  \/ \E i \in 0..MaxLen : MeasureLine(i)
  \/ \E cs \in MeasureSpacings : Relayout("charSpacing", cs)

SpecMeasure == InitMeasure /\ [][NextMeasure]_vars

\* C16: in the boxes of every measured line, the sentinel included, the left
\* offsets never decrease from one box to the next, for every kerning and
\* every character spacing
MonotonicLeftOffsets ==
  \A i \in DOMAIN tb.__charBounds :
    \A k \in 1..(Len(tb.__charBounds[i]) - 1) :
      tb.__charBounds[i][k].left <= tb.__charBounds[i][k + 1].left

-----------------------------------------------------------------------------
(* Specification SpecCache: measurements of single characters, with and    *)
(* without a previous character, against one font cache that starts empty  *)

CacheGraphemes == {"a", "b"}

CacheFontSizes == {40, 80}

InitCache ==
  /\ tb = [fontCache |-> EmptyFontCache]
  /\ ret = NoRet
  /\ expected = EmptyFontCache

\* _measureChar(_char, charStyle, previousChar, prevCharStyle); expected keeps
\* the cache as it was before the call
MeasureChar(_char, fontSize, previousChar, prevFontSize) ==
  /\ LET measured(r) ==
           /\ tb' = [fontCache |-> r.fontCache]
           /\ ret' = [op |-> "measure", _char |-> _char, fontSize |-> fontSize,
                      previousChar |-> previousChar, prevFontSize |-> prevFontSize,
                      width |-> r.width, kernedWidth |-> r.kernedWidth, isNaN |-> r.isNaN]
     IN measured(_measureCharCached(tb.fontCache, _char, [fontSize |-> fontSize, deltaY |-> 0],
                                    previousChar, [fontSize |-> prevFontSize, deltaY |-> 0]))
  /\ expected' = tb.fontCache

NextCache ==
  \E c \in CacheGraphemes, p \in CacheGraphemes \cup {""}, s \in CacheFontSizes,
     ps \in CacheFontSizes : MeasureChar(c, s, p, ps)

SpecCache == InitCache /\ [][NextCache]_vars

\* C17: a measurement keeps every entry the cache held, with its value, and
\* returns the widths that a measurement without any cache returns: the
\* kerned width is the couple's width less the previous character's when the
\* previous character has the same font declaration, the width otherwise
MeasurementCacheTransparent ==
  ret.op = "measure" =>
    /\ \A k \in DOMAIN expected : k \in DOMAIN tb.fontCache /\ tb.fontCache[k] = expected[k]
    /\ ~ret.isNaN
    /\ LET same(fresh) == ret.width = fresh.width /\ ret.kernedWidth = fresh.kernedWidth
       IN same(_measureChar(ret._char, [fontSize |-> ret.fontSize, deltaY |-> 0],
                            ret.previousChar, [fontSize |-> ret.prevFontSize, deltaY |-> 0]))

MeasurementCacheTransparentWitness ==
  /\ ret.op = "measure"
  /\ ret._char = "b" /\ ret.previousChar = "a"
  /\ ret.fontSize = 80 /\ ret.prevFontSize = 80
  /\ "ab" \in DOMAIN expected
  /\ ret.kernedWidth # ret.width

-----------------------------------------------------------------------------
(* Specification SpecCanvas: the selection state of a SelectableCanvas.    *)
(* tb holds the canvas: _activeObject, and _activeObjects, which is        *)
(* undefined while hasActiveObjects is FALSE; ret holds the last call, its *)
(* result and the events it fired                                          *)

CanvasObjects == {"o1", "o2", "o3"}

Undefined == "undefined"

getActiveObject(cv) == cv._activeObject

getActiveObjects(cv) == IF cv.hasActiveObjects THEN cv._activeObjects ELSE <<>>

\* the events fired by _fireSelectionEvents, in order
_fireSelectionEvents(cv, oldObjects) ==
  LET fired(objects) ==
        LET inOld(t) == \E k \in 1..Len(oldObjects) : oldObjects[k] = t
            inNew(t) == \E k \in 1..Len(objects) : objects[k] = t
            removed == SelectSeq(oldObjects, LAMBDA t : ~inNew(t))
            added == SelectSeq(objects, LAMBDA t : ~inOld(t))
        IN [k \in 1..Len(removed) |-> [type |-> "deselected", target |-> removed[k]]]
           \o [k \in 1..Len(added) |-> [type |-> "selected", target |-> added[k]]]
           \o (IF Len(oldObjects) > 0 /\ Len(objects) > 0
               THEN (IF removed # <<>> \/ added # <<>>
                     THEN <<[type |-> "selection:updated", selected |-> added,
                             deselected |-> removed]>>
                     ELSE <<>>)
               ELSE IF Len(objects) > 0
               THEN <<[type |-> "selection:created", selected |-> added]>>
               ELSE IF Len(oldObjects) > 0
               THEN <<[type |-> "selection:cleared", deselected |-> removed]>>
               ELSE <<>>)
  IN fired(getActiveObjects(cv))

\* deselectRefused: what the active object's onDeselect returns
_discardActiveObject(cv, deselectRefused) ==
  IF cv._activeObject # Undefined
  THEN (IF deselectRefused THEN [cv |-> cv, discarded |-> FALSE]
        ELSE [cv |-> [cv EXCEPT !._activeObject = Undefined], discarded |-> TRUE])
  ELSE [cv |-> cv, discarded |-> FALSE]

\* selectRefused: what object.onSelect returns
_setActiveObject(cv, object, selectRefused, deselectRefused) ==
  LET discardedThen(d) ==
        IF ~d.discarded /\ d.cv._activeObject # Undefined
        THEN [cv |-> d.cv, selected |-> FALSE]
        ELSE IF selectRefused THEN [cv |-> d.cv, selected |-> FALSE]
        ELSE [cv |-> [d.cv EXCEPT !._activeObject = object], selected |-> TRUE]
  IN IF cv._activeObject = object THEN [cv |-> cv, selected |-> FALSE]
     ELSE discardedThen(_discardActiveObject(cv, deselectRefused))

setActiveObject(cv, object, selectRefused, deselectRefused) ==
  LET fired(s) == [cv |-> s.cv, selected |-> s.selected,
                   events |-> _fireSelectionEvents(s.cv, getActiveObjects(cv))]
  IN fired(_setActiveObject(cv, object, selectRefused, deselectRefused))

discardActiveObject(cv, deselectRefused) ==
  LET fired(d) ==
        [cv |-> d.cv, discarded |-> d.discarded,
         events |-> (IF Len(getActiveObjects(cv)) > 0
                     THEN <<[type |-> "before:selection:cleared",
                             deselected |-> <<getActiveObject(cv)>>]>>
                     ELSE <<>>)
                    \o _fireSelectionEvents(d.cv, getActiveObjects(cv))]
  IN fired(_discardActiveObject(cv, deselectRefused))

cancelActiveObjects(cv) ==
  IF cv.hasActiveObjects /\ Len(cv._activeObjects) > 0
  THEN [cv |-> [cv EXCEPT !._activeObjects = <<>>],
        events |-> [k \in 1..Len(cv._activeObjects) |->
                      [type |-> "before:selection:cleared",
                       deselected |-> <<cv._activeObjects[k]>>]]]
  ELSE [cv |-> cv, events |-> <<>>]

checkboxActiveObjects(cv, target) ==
  IF ~cv.hasActiveObjects
  THEN [cv EXCEPT !.hasActiveObjects = TRUE, !._activeObjects = <<target>>]
  ELSE IF \E k \in 1..Len(cv._activeObjects) : cv._activeObjects[k] = target
  THEN [cv EXCEPT !._activeObjects = SelectSeq(@, LAMBDA t : t # target)]
  ELSE [cv EXCEPT !._activeObjects = Append(@, target)]

InitCanvas ==
  /\ tb = [_activeObject |-> Undefined, hasActiveObjects |-> FALSE, _activeObjects |-> <<>>]
  /\ ret = NoRet
  /\ expected = <<>>

SetActiveObject(object, selectRefused, deselectRefused) ==
  /\ LET returned(r) ==
           /\ tb' = r.cv
           /\ ret' = [op |-> "setActiveObject", object |-> object, selected |-> r.selected,
                      events |-> r.events, activeBefore |-> getActiveObject(tb),
                      activesBefore |-> getActiveObjects(tb)]
     IN returned(setActiveObject(tb, object, selectRefused, deselectRefused))
  /\ UNCHANGED expected

DiscardActiveObject(deselectRefused) ==
  /\ LET returned(r) ==
           /\ tb' = r.cv
           /\ ret' = [op |-> "discardActiveObject", discarded |-> r.discarded,
                      events |-> r.events]
     IN returned(discardActiveObject(tb, deselectRefused))
  /\ UNCHANGED expected

CancelActiveObjects ==
  /\ LET returned(r) ==
           /\ tb' = r.cv
           /\ ret' = [op |-> "cancelActiveObjects", events |-> r.events]
     IN returned(cancelActiveObjects(tb))
  /\ UNCHANGED expected

CheckboxActiveObjects(target) ==
  /\ tb' = checkboxActiveObjects(tb, target)
  /\ ret' = [op |-> "checkboxActiveObjects"]
  /\ UNCHANGED expected

NextCanvas ==
  \/ \E object \in CanvasObjects, s \in BOOLEAN, d \in BOOLEAN : SetActiveObject(object, s, d)
  \/ \E d \in BOOLEAN : DiscardActiveObject(d)
  \/ CancelActiveObjects
  \/ \E target \in CanvasObjects : CheckboxActiveObjects(target)

SpecCanvas == InitCanvas /\ [][NextCanvas]_vars

\* C18: after setActiveObject(obj) has returned true, getActiveObject() is
\* obj, getActiveObjects() is exactly [obj], and the events of the call
\* report obj as selected and every object that was active before as
\* deselected
SetActiveObjectIsOnlyActive ==
  (ret.op = "setActiveObject" /\ ret.selected) =>
    /\ getActiveObject(tb) = ret.object
    /\ getActiveObjects(tb) = <<ret.object>>
    /\ \E k \in 1..Len(ret.events) :
         ret.events[k] = [type |-> "selected", target |-> ret.object]
    /\ \A p \in ({ret.activeBefore} \cup {ret.activesBefore[k] : k \in 1..Len(ret.activesBefore)})
                  \ {Undefined, ret.object} :
         \E k \in 1..Len(ret.events) :
           ret.events[k] = [type |-> "deselected", target |-> p]

-----------------------------------------------------------------------------
(* Word separators in the visual lines (checked under SpecWrap)            *)

\* the words (positions in data) the wrap packed on visual line v of logical
\* line l: those measured from the offset the line starts at up to the offset
\* the next visual line of l starts at
wordsOnLine(r, data, l, v) ==
  {k \in 1..Len(data) :
     /\ data[k].start >= r.origins[v].offset
     /\ \A u \in visualLinesOf(r, l) :
          r.origins[u].offset > r.origins[v].offset => data[k].start < r.origins[u].offset}

\* words lo..hi of data, with infix between every two consecutive ones
RECURSIVE joinWords(_, _, _, _)
joinWords(data, lo, hi, infix) ==
  IF lo > hi THEN <<>>
  ELSE IF lo = hi THEN data[lo].word
  ELSE data[lo].word \o infix \o joinWords(data, lo + 1, hi, infix)

\* every visual line is the words packed on it with one space between every
\* two consecutive words (none when wrapping by grapheme) and nothing else
separatorRule(r, o, gdata) ==
  \A v \in 1..Len(r.wrapped) :
    LET l == r.origins[v].line
        data == At(gdata.wordsData, l)
        joined(ks) ==
          /\ ks # {}
          /\ r.wrapped[v]
               = joinWords(data, CHOOSE k \in ks : \A j \in ks : k <= j,
                           CHOOSE k \in ks : \A j \in ks : j <= k,
                           IF o.splitByGrapheme THEN <<>> ELSE <<SPACE>>)
    IN joined(wordsOnLine(r, data, l, v))

\* C21 as stated: in word-granular mode no visual line begins or ends with a
\* word separator, a separator stands only between two words of the same
\* visual line, and in grapheme-granular mode no separator is inserted
NoSeparatorAtLineEnds ==
  ret.op = "wrap" =>
    /\ separatorRule(ret, tb, getGraphemeDataForRender(tb, Text_splitTextIntoLines(tb.text).lines))
    /\ ~tb.splitByGrapheme =>
         \A v \in 1..Len(ret.wrapped) :
           ret.wrapped[v] # <<>> =>
             /\ ret.wrapped[v][1] \notin _wordJoiners
             /\ ret.wrapped[v][Len(ret.wrapped[v])] \notin _wordJoiners

\* C21, amended: the wrapper inserts one space between every two consecutive
\* words it packs on the same visual line and nowhere else, a word being a
\* possibly empty run between two joiners; a visual line begins or ends with a
\* separator only where its first or last word is empty; in grapheme-granular
\* mode no separator is inserted
SeparatorsOnlyBetweenWords ==
  ret.op = "wrap" =>
    separatorRule(ret, tb, getGraphemeDataForRender(tb, Text_splitTextIntoLines(tb.text).lines))

\* a line of two words and their separator, followed by a wrap point
SeparatorsOnlyBetweenWordsWitness ==
  /\ ret.op = "wrap"
  /\ ~tb.splitByGrapheme
  /\ Len(ret.wrapped) >= 2
  /\ ret.origins[2].line = 0
  /\ ret.wrapped[1] = <<"a", SPACE, "a">>

-----------------------------------------------------------------------------
(* The OlpTextbox with wrap disabled (checked under SpecLayout)            *)

\* C22: with wrap disabled the wrapper produces exactly one visual line per
\* logical line, for every text and every width: as many visual lines as
\* lines delimited by hard breaks, each starting at offset 0 of its logical
\* line and as long as it, so that no line is split at a width limit
WrapDisabledOneLinePerLogicalLine ==
  (tb.cls = "OlpTextbox" /\ ~tb.wrap) =>
    /\ Len(tb._textLines) = Len(tb._unwrappedTextLines)
    /\ \A i \in 1..Len(tb._textLines) :
         /\ tb.origins[i] = [line |-> i - 1, offset |-> 0]
         /\ Len(tb._textLines[i]) = Len(tb._unwrappedTextLines[i])

\* a logical line of two words wider than the box, and a hard break
WrapDisabledOneLinePerLogicalLineWitness ==
  /\ ret.op = "set" /\ ret.key = "text"
  /\ tb.cls = "OlpTextbox" /\ ~tb.wrap /\ ~tb.splitByGrapheme
  /\ tb.width = 3 * Px
  /\ Len(tb._unwrappedTextLines) = 2
  /\ tb._textLines[1] = <<"a", SPACE, "b">>

\* C23: with wrap disabled, after every relayout the width of the box is at
\* least maxLineWidth, the width of the longest visual line produced,
\* whatever the width was before (zero, below the longest line, or above)
WidthAtLeastMaxLineWidth ==
  (tb.cls = "OlpTextbox" /\ ~tb.wrap) => tb.width >= tb.maxLineWidth

-----------------------------------------------------------------------------
(* The lines the justifier leaves alone (checked under SpecJustify)        *)

\* the boxes of visual line i as a reader finds them: those kept since the
\* relayout, or those the first measurement of the line produces
boxesOf(o, i) ==
  IF i \in DOMAIN o.__charBounds THEN o.__charBounds[i]
  ELSE _measureLine(o, i).o.__charBounds[i]

\* C24: justification leaves unchanged the boxes of the final visual line of
\* every paragraph unless textAlign is exactly "justify", and those of every
\* line without whitespace or whose natural width is not below the container
\* width; every other line of a justified text is stretched
JustifierSkipsParagraphEnds ==
  \A i \in 0..(Len(tb._textLines) - 1) :
    IF stretched(tb, i)
    THEN /\ i \in DOMAIN tb.__charBounds
         /\ \E k \in spacesOf(tb, i) :
              tb.__charBounds[i][k].width > naturalBoxes(tb, i)[k].width
    ELSE boxesOf(tb, i) = naturalBoxes(tb, i)

\* under "justify-left": a stretched line followed by the last line of its
\* paragraph, which holds whitespace and is narrower than the container
JustifierSkipsParagraphEndsWitness ==
  /\ tb.textAlign = JUSTIFY_LEFT
  /\ tb.charSpacing # 0
  /\ Len(tb._textLines) = 2
  /\ stretched(tb, 0)
  /\ spacesOf(tb, 1) # {}
  /\ naturalWidth(tb, 1) < tb.width

-----------------------------------------------------------------------------
(* Specification SpecSeparator: one query of the cursor addressor on a     *)
(* Textbox with default options, the scenario text "ab cd" included        *)

SeparatorTexts == Texts \cup {<<"a", "b", SPACE, "c", "d">>}

InitSeparator ==
  /\ \E t \in SeparatorTexts, w \in CursorWidths, g \in BOOLEAN :
       tb = construct([width |-> w, splitByGrapheme |-> g], t)
  /\ ret = NoRet
  /\ expected = <<>>

NextSeparator ==
  \/ \E y \in PointerYs : HitTest(0, y)
  \/ \E k \in 0..(MaxLen + 2) : Locate(k)

SpecSeparator == InitSeparator /\ [][NextSeparator]_vars

\* the linear index of the first character of visual line i when every line
\* end before it, wrap point or hard break, takes one index
lineStartIndex(o, i) == SumSeq([j \in 1..i |-> Len(o._textLines[j]) + 1])

\* C25: in word-granular mode, at every wrap point (visual lines i and i + 1
\* of one logical line) the dropped separator is on neither line and takes
\* exactly one linear index: the character between the two spans is a word
\* joiner, the index of the end of line i locates to {i, length of line i},
\* the next index locates to {i + 1, 0}, the style map entry of line i + 1 is
\* the offset of line i plus its length plus one, and a hit test at the left
\* edge of line i + 1 returns the index of its first character; for "ab cd"
\* wrapped after "ab": lines ["ab", "cd"], entry {line 0, offset 3}, index 3
SeparatorTakesOneIndex ==
  ~tb.splitByGrapheme =>
    /\ (tb.text = <<"a", "b", SPACE, "c", "d">> /\ tb.width < 9 * Px) =>
         /\ tb._textLines = <<(<<"a", "b">>), (<<"c", "d">>)>>
         /\ At(tb._styleMap, 1) = [line |-> 0, offset |-> 3]
         /\ (ret.op = "locate" /\ ret.k = 2) => ret.at = [lineIndex |-> 0, charIndex |-> 2]
         /\ (ret.op = "locate" /\ ret.k = 3) => ret.at = [lineIndex |-> 1, charIndex |-> 0]
         /\ (ret.op = "hit" /\ lineAtY(tb, ret.y) = 1) => ret.index = 3
    /\ \A i \in 0..(Len(tb._textLines) - 2) :
         endsAtWrapPoint(tb, i) =>
           LET len == Len(At(tb._textLines, i))
               l == At(tb.origins, i).line
               offset == At(tb.origins, i).offset
           IN /\ At(At(tb._unwrappedTextLines, l), offset + len) \in _wordJoiners
              /\ At(tb.origins, i + 1).offset = offset + len + 1
              /\ At(tb._styleMap, i + 1) = [line |-> l, offset |-> offset + len + 1]
              /\ (ret.op = "locate" /\ ret.k = lineStartIndex(tb, i) + len)
                   => ret.at = [lineIndex |-> i, charIndex |-> len]
              /\ (ret.op = "locate" /\ ret.k = lineStartIndex(tb, i + 1))
                   => ret.at = [lineIndex |-> i + 1, charIndex |-> 0]
              /\ (ret.op = "hit" /\ lineAtY(tb, ret.y) = i + 1)
                   => ret.index = lineStartIndex(tb, i + 1)

\* the scenario: "ab cd" wrapped after "ab", a hit at the left edge of "cd"
SeparatorTakesOneIndexWitness ==
  /\ ~tb.splitByGrapheme
  /\ tb._textLines = <<(<<"a", "b">>), (<<"c", "d">>)>>
  /\ ret.op = "hit"
  /\ ret.x = 0
  /\ lineAtY(tb, ret.y) = 1
  /\ ret.index = 3

-----------------------------------------------------------------------------
(* The tie-break of the hit test (checked under SpecCursor)                *)

\* the index the stated scan returns for a pointer at x on a line whose first
\* character has index start: after the first box whose trailing edge reaches
\* x only if x is strictly closer to that edge than to the leading edge
RECURSIVE tieBreakFrom(_, _, _, _, _, _)
tieBreakFrom(chars, charLength, x, j, leading, start) ==
  IF j >= charLength THEN start + j
  ELSE LET trailing == leading + At(chars, j).kernedWidth
       IN IF x <= trailing
          THEN (IF Abs(x - trailing) < Abs(x - leading) THEN start + j + 1 ELSE start + j)
          ELSE tieBreakFrom(chars, charLength, x, j + 1, trailing, start)

\* C26: within the located line the hit test returns the index after the
\* first box whose trailing edge reaches or exceeds the pointer's x only if
\* the pointer is strictly closer to the trailing edge than to the leading
\* edge, and the index before it otherwise, the exact middle included
HitTieBreaksBefore ==
  (ret.op = "hit" /\ ~tb.flipX) =>
    LET scanned(st, leftOffset) ==
          ret.index = Min2(tieBreakFrom(tb.__charBounds[st.lineIndex],
                                        Len(At(tb._textLines, st.lineIndex)),
                                        ret.x, 0, Abs(leftOffset), st.charIndex),
                           Len(tb._text))
        located(st) == scanned(st, _getLineLeftOffset(tb, st.lineIndex).leftOffset)
    IN located(hitLineFrom(tb, ret.y, 0, [height |-> 0, lineIndex |-> 0, charIndex |-> 0]).st)

-----------------------------------------------------------------------------
(* Specification SpecContent: a Textbox whose text holds tabs as well as   *)
(* spaces, laid out at several widths                                      *)

ContentAlphabet == {"a", SPACE, TAB, NL}

InitContent ==
  /\ \E t \in StringsOver(ContentAlphabet, MaxLen), w \in Widths, g \in BOOLEAN :
       tb = construct([width |-> w, splitByGrapheme |-> g], t)
  /\ ret = NoRet
  /\ expected = <<>>

NextContent == \E w \in Widths : SetWidth(w)

SpecContent == InitContent /\ [][NextContent]_vars

\* C27: wrapping preserves content: the grapheme at visual (i, j) is the
\* grapheme of the text at logical (styleMap[i].line, styleMap[i].offset + j),
\* for every visual line and position, in grapheme-granular mode and in
\* word-granular mode, whichever word joiner (space, tab, carriage return)
\* separates the words
WrapPreservesContent ==
  \A ij \in VisualChars(tb) :
    LET entry == At(tb._styleMap, ij[1])
        logical == At(tb._unwrappedTextLines, entry.line)
    IN /\ entry.offset + ij[2] < Len(logical)
       /\ At(At(tb._textLines, ij[1]), ij[2]) = At(logical, entry.offset + ij[2])

-----------------------------------------------------------------------------
(* Specification SpecPass: the word wrapper called on documents that       *)
(* repeat a logical line                                                   *)

InitPass ==
  /\ \E t \in Texts \cup {x \o <<NL>> \o x : x \in StringsUpTo(2)},
        g \in BOOLEAN, cs \in WrapSpacings :
       tb = construct([width |-> 12 * Px, splitByGrapheme |-> g, charSpacing |-> cs], t)
  /\ ret = NoRet
  /\ expected = <<>>

SpecPass == InitPass /\ [][NextWrap]_vars

\* the maxWidth _wrapLine computes for each logical line of one _wrapText
\* pass, o being the object as the wrap of line i finds it
RECURSIVE maxWidthsFrom(_, _, _, _)
maxWidthsFrom(o, desiredWidth, gdata, i) ==
  IF i >= Len(gdata.wordsData) THEN <<>>
  ELSE <<Max2(Max2(desiredWidth, gdata.largestWordWidth), o.dynamicMinWidth)>>
       \o maxWidthsFrom(wrapLineOf(o, i, desiredWidth, gdata).o, desiredWidth, gdata, i + 1)

\* the visual lines a wrap returned for logical line l, in order
partitionOf(r, l) ==
  [k \in 1..Cardinality(visualLinesOf(r, l)) |->
     r.wrapped[(CHOOSE v \in visualLinesOf(r, l) : \A u \in visualLinesOf(r, l) : v <= u) + k - 1]]

\* C28: within one wrap pass the maximum width used for logical line 0 is the
\* one used for every later logical line, and two identical logical lines of
\* the document get the same visual lines, whatever the character spacing
SameMaxWidthForEveryLine ==
  ret.op = "wrap" =>
    LET before == [tb EXCEPT !.dynamicMinWidth = ret.dynamicMinWidth]
        lines == Text_splitTextIntoLines(tb.text).lines
        same(widths) == \A i \in 1..Len(widths) : widths[i] = widths[1]
    IN /\ same(maxWidthsFrom(before, ret.desiredWidth, getGraphemeDataForRender(before, lines), 0))
       /\ \A l1, l2 \in 0..(Len(lines) - 1) :
            At(lines, l1) = At(lines, l2) => partitionOf(ret, l1) = partitionOf(ret, l2)

-----------------------------------------------------------------------------
(* The relayout as a fixed point (checked under SpecLayout)                *)

\* C29: after a relayout, a second initDimensions with no change in between
\* leaves the visual lines, the style map, the width and the height as they
\* are, for the Textbox and for the OlpTextbox
RelayoutIsFixedPoint ==
  ret.op = "set" =>
    LET same(again) ==
          /\ again._textLines = tb._textLines
          /\ again._styleMap = tb._styleMap
          /\ again.width = tb.width
          /\ again.height = tb.height
    IN same(initDimensions(tb))

-----------------------------------------------------------------------------
(* Specification SpecRemoval: the selection state of a canvas whose        *)
(* objects are clicked, selected, deselected and removed.  The canvas      *)
(* record also holds _objects, the objects on the canvas.  The objects are *)
(* top level (no parent), selectable, evented and active on mouse down;    *)
(* the pointer events are main-button events without the selection key     *)

\* SelectableCanvas._shouldClearSelection, target = Undefined for no target
_shouldClearSelection(cv, target) ==
  \/ target = Undefined
  \/ /\ cv._activeObject # Undefined
     /\ Len(getActiveObjects(cv)) > 1
     /\ \A k \in 1..Len(getActiveObjects(cv)) : getActiveObjects(cv)[k] # target
     /\ cv._activeObject # target

\* Canvas.__onMouseDown: the canvas after the event and the selection events
\* fired; ctrlKey toggles the target in _activeObjects
__onMouseDown(cv, target, ctrlKey, selectRefused, deselectRefused) ==
  LET listed == IF target = Undefined
                THEN [cv EXCEPT !.hasActiveObjects = TRUE, !._activeObjects = <<>>]
                ELSE IF ctrlKey THEN checkboxActiveObjects(cv, target)
                ELSE [cv EXCEPT !.hasActiveObjects = TRUE, !._activeObjects = <<target>>]
      selected(c) ==
        IF target = Undefined THEN [cv |-> c.cv, events |-> c.events]
        ELSE LET fired(s) == [cv |-> s.cv, events |-> c.events \o s.events]
             IN fired(setActiveObject(c.cv, target, selectRefused, deselectRefused))
  IN selected(IF _shouldClearSelection(listed, target)
              THEN discardActiveObject(listed, deselectRefused)
              ELSE [cv |-> listed, discarded |-> FALSE, events |-> <<>>])

\* SelectableCanvas._onObjectRemoved, called when obj leaves the canvas
_onObjectRemoved(cv, obj, deselectRefused) ==
  LET left(c) == [c EXCEPT !._objects = @ \ {obj}]
  IN IF obj = cv._activeObject
     THEN [cv |-> left(_discardActiveObject(cv, deselectRefused).cv),
           events |-> <<[type |-> "before:selection:cleared", deselected |-> <<obj>>],
                        [type |-> "selection:cleared", deselected |-> <<obj>>],
                        [type |-> "deselected", target |-> obj]>>]
     ELSE [cv |-> left(cv), events |-> <<>>]

InitRemoval ==
  /\ tb = [_activeObject |-> Undefined, hasActiveObjects |-> FALSE, _activeObjects |-> <<>>,
           _objects |-> CanvasObjects]
  /\ ret = NoRet
  /\ expected = <<>>

\* a mouse down on an object of the canvas, or on no object
MouseDown(target, ctrlKey, selectRefused, deselectRefused) ==
  /\ target = Undefined \/ target \in tb._objects
  /\ LET returned(r) ==
           /\ tb' = r.cv
           /\ ret' = [op |-> "mouseDown", events |-> r.events]
     IN returned(__onMouseDown(tb, target, ctrlKey, selectRefused, deselectRefused))
  /\ UNCHANGED expected

\* canvas.remove(obj)
Remove(obj, deselectRefused) ==
  /\ obj \in tb._objects
  /\ LET returned(r) ==
           /\ tb' = r.cv
           /\ ret' = [op |-> "remove", object |-> obj, wasActive |-> obj = tb._activeObject,
                      events |-> r.events]
     IN returned(_onObjectRemoved(tb, obj, deselectRefused))
  /\ UNCHANGED expected

\* canvas.setActiveObject(object) for an object of the canvas
SetActiveObjectOnCanvas(object, selectRefused, deselectRefused) ==
  /\ object \in tb._objects
  /\ SetActiveObject(object, selectRefused, deselectRefused)

NextRemoval ==
  \/ \E target \in CanvasObjects \cup {Undefined}, c \in BOOLEAN, s \in BOOLEAN, d \in BOOLEAN :
       MouseDown(target, c, s, d)
  \/ \E object \in CanvasObjects, s \in BOOLEAN, d \in BOOLEAN :
       SetActiveObjectOnCanvas(object, s, d)
  \/ \E d \in BOOLEAN : DiscardActiveObject(d)
  \/ \E obj \in CanvasObjects, d \in BOOLEAN : Remove(obj, d)

SpecRemoval == InitRemoval /\ [][NextRemoval]_vars

\* C30: no object that has been removed from the canvas is reported active,
\* neither by getActiveObject() nor in getActiveObjects(), and the removal of
\* the active object fires before:selection:cleared, selection:cleared and
\* the object's deselected, in that order
RemovedObjectNotActive ==
  /\ \A obj \in CanvasObjects \ tb._objects :
       /\ getActiveObject(tb) # obj
       /\ \A k \in 1..Len(getActiveObjects(tb)) : getActiveObjects(tb)[k] # obj
  /\ (ret.op = "remove" /\ ret.wasActive) =>
       ret.events = <<[type |-> "before:selection:cleared", deselected |-> <<ret.object>>],
                      [type |-> "selection:cleared", deselected |-> <<ret.object>>],
                      [type |-> "deselected", target |-> ret.object]>>

====
